---- MODULE Spec2Model ----
(***************************************************************************)
(* Model of the graphics manager of kitty/graphics.c: image transmission,  *)
(* placements, deletion, scrolling, storage quota.                         *)
(*                                                                         *)
(* Conventions.  A C pointer that is NULL or not is a BOOLEAN (buf,        *)
(* mapped_file).  An Image* into self->images is an index 1..image_count,  *)
(* 0 for NULL.  A uint32_t is held by the int32 with the same bit pattern, *)
(* so that 2^32-1 is -1: sums and differences of small values are then the *)
(* mathematical ones and only comparisons need to know the signedness      *)
(* (ULt, ULe for unsigned; <, <= for signed).                              *)
(***************************************************************************)
EXTENDS Integers, Sequences, FiniteSets, TLC

VARIABLES images, used_storage, loading_image, last_init_graphics_command,
          layers_dirty, internal_id_counter, cursor, cell, ret,
          send_to_gpu, heap_overflow, last_op,
          render_data, last_scrolled_by, num_of_below_refs,
          num_of_negative_refs, num_of_positive_refs

vars == <<images, used_storage, loading_image, last_init_graphics_command,
          layers_dirty, internal_id_counter, cursor, cell, ret,
          send_to_gpu, heap_overflow, last_op,
          render_data, last_scrolled_by, num_of_below_refs,
          num_of_negative_refs, num_of_positive_refs>>

\* ---------------------------------------------------------------- constants

STORAGE_LIMIT == 335544320

MAX_DATA_SZ == 400000000

MAX_DIMENSION == 10000

PNG_DEFAULT_DATA_SZ == 102400

MAX_FILENAME == 2048

INT32_MAX == 2147483647

\* ---------------------------------------------------------------- bounds

MaxImages == 3

MaxRefs == 2

MaxInternalId == 3

MaxRow == 2

\* bytes received into one load buffer
MaxBufUsed == 30

\* bytes still counted in used_storage that no stored image accounts for
MaxLeak == 4

\* ------------------------------------------------------- machine integers

MIN(a, b) == IF a < b THEN a ELSE b

\* unsigned comparison of two uint32 held as int32 bit patterns
ULt(a, b) == IF (a >= 0) = (b >= 0) THEN a < b ELSE a >= 0

ULe(a, b) == a = b \/ ULt(a, b)

\* (int)(x - y) for uint32 x, y: the difference modulo 2^32 read as an int32.
\* Written so that no intermediate value leaves the int32 range.
U32SubAsInt(x, y) ==
    IF (x >= 0) = (y >= 0) THEN x - y
    ELSE IF x >= 0
         THEN \* y < 0: x - y > 0 mathematically, wraps when >= 2^31
              IF x - INT32_MAX - 1 >= y THEN (x - INT32_MAX - 1) + ((- INT32_MAX - 1) - y)
              ELSE x - y
         ELSE \* x < 0 <= y: x - y < 0 mathematically, wraps when < -2^31
              IF x + INT32_MAX + 1 < y THEN (x + INT32_MAX + 1) + ((INT32_MAX + 1) - y)
              ELSE x - y

\* ---------------------------------------------------------------- sequences

\* a function on 1..n as the sequence with the same elements
AsSeq(f) == SubSeq(f, 1, Len(f))

RemoveAt(s, i) == AsSeq([k \in 1..(Len(s) - 1) |-> IF k < i THEN s[k] ELSE s[k + 1]])

SeqSum(s, f(_)) ==
    LET RECURSIVE go(_)
        go(k) == IF k = 0 THEN 0 ELSE f(s[k]) + go(k - 1)
    IN go(Len(s))

\* ---------------------------------------------------------------- records

ZeroLoadData == [buf |-> FALSE, buf_used |-> 0, buf_capacity |-> 0,
                 mapped_file |-> FALSE, mapped_file_sz |-> 0,
                 data_sz |-> 0, is_opaque |-> FALSE]

ZeroImage == [internal_id |-> 0, client_id |-> 0, client_number |-> 0,
              width |-> 0, height |-> 0, texture_id |-> 0, atime |-> 0,
              used_storage |-> 0, data_loaded |-> FALSE,
              load_data |-> ZeroLoadData, refs |-> <<>>]

ZeroRef == [client_id |-> 0, src_x |-> 0, src_y |-> 0, src_width |-> 0,
            src_height |-> 0, z_index |-> 0, start_row |-> 0,
            start_column |-> 0, num_cols |-> 0, num_rows |-> 0,
            cell_x_offset |-> 0, cell_y_offset |-> 0,
            effective_num_rows |-> 0, effective_num_cols |-> 0]

ZeroCommand == [action |-> "", id |-> 0, image_number |-> 0,
                placement_id |-> 0, delete_action |-> "",
                transmission_type |-> "", format |-> 0, compressed |-> "",
                data_width |-> 0, data_height |-> 0, data_sz |-> 0,
                payload_sz |-> 0, more |-> 0, quiet |-> 0,
                x_offset |-> 0, y_offset |-> 0, width |-> 0, height |-> 0,
                num_cells |-> 0, num_lines |-> 0, cell_x_offset |-> 0,
                cell_y_offset |-> 0, z_index |-> 0]

\* What the operating system and the decoders answer during one command.
DefaultEnv == [malloc_ok |-> TRUE, fd_ok |-> TRUE, mmap_ok |-> TRUE,
               st_size |-> 0, zlib_ok |-> TRUE, png_ok |-> TRUE,
               png_width |-> 1, png_height |-> 1]

NoResponse == [kind |-> "none"]

\* The manager as one value, threaded through the handlers.
Self == [images |-> images, used_storage |-> used_storage,
         loading_image |-> loading_image,
         last_init_graphics_command |-> last_init_graphics_command,
         layers_dirty |-> layers_dirty,
         internal_id_counter |-> internal_id_counter,
         command_response |-> "",
         heap_overflow |-> heap_overflow, evicted |-> FALSE,
         render_data |-> render_data, last_scrolled_by |-> last_scrolled_by,
         num_of_below_refs |-> num_of_below_refs,
         num_of_negative_refs |-> num_of_negative_refs,
         num_of_positive_refs |-> num_of_positive_refs]

\* ------------------------------------------------------------------ time

\* img->atime = monotonic().  The code reads atime only through the sign of
\* a difference (oldest_last), so an atime is held as the image's rank in
\* the order of last access: touching an image makes it the newest, and the
\* atimes above 0 stay 1..k in the order of the clock values they stand for.
\* An image that pyimage_for_client_id made keeps its zeroed atime.
RankOf(imgs, t) ==
    IF t = 0 THEN 0
    ELSE Cardinality({imgs[k].atime : k \in 1..Len(imgs)} \cap 1..t)

Touch(imgs, idx) ==
    LET newest == 1 + Len(imgs)
        touched == [imgs EXCEPT ![idx].atime = newest]
    IN AsSeq([k \in 1..Len(imgs) |-> [touched[k] EXCEPT !.atime = RankOf(touched, @)]])

\* ------------------------------------------------------- freeing, lookups

free_refs_data(img) == [img EXCEPT !.refs = <<>>]

free_load_data(ld) ==
    [ld EXCEPT !.buf = FALSE, !.buf_used = 0, !.buf_capacity = 0,
               !.mapped_file = FALSE, !.mapped_file_sz = 0]

\* free_image: what it does to the manager (the image itself is dropped by
\* the caller)
free_image(M, idx) ==
    [M EXCEPT !.used_storage = @ - M.images[idx].used_storage]

img_by_internal_id(M, id) ==
    LET hits == {i \in 1..Len(M.images) : M.images[i].internal_id = id}
    IN IF hits = {} THEN 0 ELSE CHOOSE i \in hits : \A j \in hits : i <= j

img_by_client_id(M, id) ==
    LET hits == {i \in 1..Len(M.images) : M.images[i].client_id = id}
    IN IF hits = {} THEN 0 ELSE CHOOSE i \in hits : \A j \in hits : i <= j

img_by_client_number(M, number) ==
    LET hits == {i \in 1..Len(M.images) : M.images[i].client_number = number}
    IN IF hits = {} THEN 0 ELSE CHOOSE i \in hits : \A j \in hits : i >= j

remove_image(M, idx) ==
    LET left == RemoveAt(M.images, idx)
    IN [free_image(M, idx) EXCEPT
          !.images = AsSeq([k \in 1..Len(left) |->
                               [left[k] EXCEPT !.atime = RankOf(left, @)]]),
          !.layers_dirty = TRUE]

\* remove_images (lines 115-123): the images are visited from the last to the
\* first
RECURSIVE remove_images_from(_, _, _, _)
remove_images_from(M, predicate(_), skip_image_internal_id, i) ==
    IF i = 0 THEN M
    ELSE LET img == M.images[i]
             M1 == IF img.internal_id # skip_image_internal_id /\ predicate(img)
                   THEN remove_image(M, i) ELSE M
         IN remove_images_from(M1, predicate, skip_image_internal_id, i - 1)

remove_images(M, predicate(_), skip_image_internal_id) ==
    remove_images_from(M, predicate, skip_image_internal_id, Len(M.images))

\* ---------------------------------------------------------- storage quota

trim_predicate(img) == ~img.data_loaded \/ Len(img.refs) = 0

add_trim_predicate(img) ==
    ~img.data_loaded \/ (img.client_id = 0 /\ Len(img.refs) = 0)

oldest_first(a, b) ==
    LET ans == a.atime - b.atime
    IN IF ans < 0 THEN -1 ELSE IF ans = 0 THEN 0 ELSE 1

\* oldest_last(a, b) <= 0: a may stand before b
oldest_last(a, b) ==
    LET ans == b.atime - a.atime
    IN IF ans < 0 THEN -1 ELSE IF ans = 0 THEN 0 ELSE 1

RECURSIVE evict_oldest(_, _)
evict_oldest(M, storage_limit) ==
    IF M.used_storage > storage_limit /\ Len(M.images) > 0
    THEN evict_oldest(remove_image(M, Len(M.images)), storage_limit)
    ELSE M

apply_storage_quota(M, storage_limit, currently_added_image_internal_id) ==
    LET M1 == [remove_images(M, trim_predicate, currently_added_image_internal_id)
                 EXCEPT !.evicted = TRUE]
    IN IF M1.used_storage < storage_limit THEN M1
       ELSE LET M2 == [M1 EXCEPT !.images =
                          SortSeq(@, LAMBDA a, b : oldest_last(a, b) < 0)]
                M3 == evict_oldest(M2, storage_limit)
            IN IF Len(M3.images) = 0 THEN [M3 EXCEPT !.used_storage = 0] ELSE M3

\* ------------------------------------------------------- client id choice

\* 3000000000, a client id above 2^31, as its int32 bit pattern
BigClientId == 0 - 1294967296

cmp_client_ids(x, y) == U32SubAsInt(x, y)

\* client_ids after qsort(client_ids, count, ..., cmp_client_ids)
sorted_client_ids(M) ==
    LET idxs == SelectSeq(AsSeq([i \in 1..Len(M.images) |-> i]),
                          LAMBDA i : M.images[i].client_id # 0)
        client_ids == AsSeq([k \in 1..Len(idxs) |-> M.images[idxs[k]].client_id])
    IN SortSeq(client_ids, LAMBDA x, y : cmp_client_ids(x, y) < 0)

RECURSIVE free_id_scan(_, _, _, _)
free_id_scan(client_ids, i, prev_id, ans) ==
    IF i > Len(client_ids) THEN ans
    ELSE IF client_ids[i] = prev_id
         THEN free_id_scan(client_ids, i + 1, prev_id, ans)
         ELSE IF client_ids[i] # ans THEN ans
              ELSE free_id_scan(client_ids, i + 1, client_ids[i], client_ids[i] + 1)

get_free_client_id(M) ==
    IF Len(M.images) = 0 THEN 1
    ELSE LET client_ids == sorted_client_ids(M)
         IN IF Len(client_ids) = 0 THEN 1
            ELSE free_id_scan(client_ids, 1, 0, 1)

\* find_or_create_image: the manager, the image's index, and *existing
find_or_create_image(M, id) ==
    LET found == IF id # 0 THEN img_by_client_id(M, id) ELSE 0
    IN IF found # 0
       THEN [M |-> M, image |-> found, existing |-> TRUE]
       ELSE [M |-> [M EXCEPT !.images = Append(@, ZeroImage)],
             image |-> Len(M.images) + 1, existing |-> FALSE]

\* ------------------------------------------------------------ add command

RGB == 24

RGBA == 32

PNG == 100

BufferSlack(compressed) == IF compressed # "" THEN 1024 ELSE 10

SetImage(M, idx, img) == [M EXCEPT !.images[idx] = img]

AddResult(M, image) == [M |-> M, image |-> image]

set_command_failed_response(M, code) == [M EXCEPT !.command_response = code]

\* the ABRT macro of handle_add_command; img = 0 is a NULL img
ABRT_keeping_data_loaded(M, img, code) ==
    AddResult([set_command_failed_response(M, code) EXCEPT !.loading_image = 0], 0)

ABRT(M, img, code) ==
    LET M1 == [set_command_failed_response(M, code) EXCEPT !.loading_image = 0]
    IN AddResult(IF img = 0 THEN M1
                 ELSE [M1 EXCEPT !.images[img].data_loaded = FALSE], 0)

\* lines 507-515: the size check, the upload and the accounting
add_finish(M, img, gpu) ==
    LET im == M.images[img]
        required_sz == (IF im.load_data.is_opaque THEN 3 ELSE 4) * im.width * im.height
    IN IF im.load_data.data_sz # required_sz THEN ABRT(M, img, "EINVAL")
       ELSE IF im.data_loaded /\ gpu
            THEN AddResult(
                   [M EXCEPT !.images[img].texture_id = 1,
                             !.images[img].load_data = free_load_data(@),
                             !.images[img].used_storage = required_sz,
                             !.used_storage = @ + required_sz], img)
            ELSE AddResult(M, img)

inflate_zlib_without_free(ld) ==
    [ld EXCEPT !.buf_capacity = ld.data_sz, !.buf = TRUE, !.buf_used = ld.data_sz]

inflate_zlib(ld) ==
    [free_load_data(ld) EXCEPT !.buf_capacity = ld.data_sz, !.buf = TRUE,
                               !.buf_used = ld.data_sz]

inflate_png(im, e) ==
    LET sz == 4 * e.png_width * e.png_height
    IN [im EXCEPT !.load_data = [free_load_data(@) EXCEPT
                                    !.buf = TRUE, !.buf_capacity = sz,
                                    !.buf_used = sz, !.data_sz = sz],
                  !.width = e.png_width, !.height = e.png_height]

\* lines 478-495: the PNG step and the checks after the decoders
add_after_zlib(M, img, fmt, e, gpu) ==
    IF fmt = PNG /\ ~e.png_ok
    THEN AddResult([set_command_failed_response(M, "EBADPNG")
                      EXCEPT !.images[img].data_loaded = FALSE], 0)
    ELSE LET M1 == IF fmt = PNG
                   THEN SetImage(M, img, inflate_png(M.images[img], e)) ELSE M
             ld == M1.images[img].load_data
         IN IF ld.buf_used < ld.data_sz THEN ABRT(M1, img, "ENODATA")
            ELSE add_finish(
                   IF ld.mapped_file
                   THEN [M1 EXCEPT !.images[img].load_data.mapped_file = FALSE,
                                   !.images[img].load_data.mapped_file_sz = 0]
                   ELSE M1, img, gpu)

\* lines 460-515, entered with the payload stored
add_decode(M0, g, img, tt, fmt, e, gpu) ==
    IF ~M0.images[img].data_loaded THEN AddResult(M0, 0)
    ELSE
    LET M == [M0 EXCEPT !.loading_image = 0]
        ld == M.images[img].load_data
    IN IF g.compressed # "" \/ fmt = PNG
       THEN CASE g.compressed = "z" ->
                   IF ~e.zlib_ok
                   THEN AddResult([set_command_failed_response(M, "EINVAL")
                                     EXCEPT !.images[img].data_loaded = FALSE], 0)
                   ELSE add_after_zlib(
                          [M EXCEPT !.images[img].load_data = inflate_zlib(@)],
                          img, fmt, e, gpu)
              [] g.compressed = "" -> add_after_zlib(M, img, fmt, e, gpu)
              [] OTHER -> ABRT(M, img, "EINVAL")
       ELSE IF tt = "d"
            THEN IF ld.buf_used < ld.data_sz THEN ABRT(M, img, "ENODATA")
                 ELSE add_finish(M, img, gpu)
            ELSE IF ld.mapped_file_sz < ld.data_sz THEN ABRT(M, img, "ENODATA")
                 ELSE add_finish(M, img, gpu)

\* mmap_img_file: the load data and whether the mapping succeeded
mmap_img_file(ld, data_sz, e) ==
    LET sz == IF data_sz = 0 THEN e.st_size ELSE data_sz
    IN IF ~e.mmap_ok \/ sz = 0
       THEN [ld |-> ld, ok |-> FALSE]
       ELSE [ld |-> [ld EXCEPT !.mapped_file = TRUE, !.mapped_file_sz = sz],
             ok |-> TRUE]

\* capacity - used < payload_sz on size_t: a negative difference wraps to a
\* value above every payload size
NoRoomFor(ld, payload_sz) ==
    ld.buf_used <= ld.buf_capacity /\ ld.buf_capacity - ld.buf_used < payload_sz

\* lines 427-440: store one direct chunk
add_direct_chunk(M, g, img, fmt, e) ==
    LET ld == M.images[img].load_data
        grow == NoRoomFor(ld, g.payload_sz)
        capacity == IF grow THEN MIN(2 * ld.buf_capacity, MAX_DATA_SZ)
                    ELSE ld.buf_capacity
    IN IF grow /\ (ld.buf_used + g.payload_sz > MAX_DATA_SZ \/ fmt # PNG)
       THEN ABRT(M, img, "EFBIG")
       ELSE IF grow /\ ~e.malloc_ok
       THEN ABRT([M EXCEPT !.images[img].load_data.buf = FALSE,
                           !.images[img].load_data.buf_capacity = capacity],
                 img, "ENOMEM")
       ELSE AddResult(
              [M EXCEPT !.images[img].load_data.buf_capacity = capacity,
                        !.images[img].load_data.buf_used = @ + g.payload_sz,
                        !.images[img].data_loaded = IF g.more = 0 THEN TRUE ELSE @,
                        !.loading_image = IF g.more = 0 THEN 0 ELSE @,
                        !.heap_overflow =
                            @ \/ ld.buf_used + g.payload_sz > capacity],
              img)

\* lines 441-456: map the file named by the payload
add_file(M, g, img, e) ==
    IF g.payload_sz > MAX_FILENAME THEN ABRT(M, img, "EINVAL")
    ELSE IF ~e.fd_ok THEN ABRT(M, img, "EBADF")
    ELSE LET m == mmap_img_file(M.images[img].load_data, g.data_sz, e)
             M1 == [M EXCEPT !.images[img].load_data = m.ld,
                             !.images[img].data_loaded = m.ok]
         IN AddResult(IF m.ok THEN M1
                      ELSE set_command_failed_response(M1, "EBADF"), img)

\* lines 424-515
add_payload(M, g, img, tt, fmt, e, gpu) ==
    LET stored == CASE tt = "d" -> add_direct_chunk(M, g, img, fmt, e)
                    [] tt \in {"f", "t", "s"} -> add_file(M, g, img, e)
                    [] OTHER -> ABRT(M, img, "EINVAL")
    IN IF stored.image = 0 THEN stored
       ELSE add_decode(stored.M, g, img, tt, fmt, e, gpu)

TransmissionType(g) == IF g.transmission_type = "" THEN "d" ELSE g.transmission_type

Format(g) == IF g.format = 0 THEN RGBA ELSE g.format

\* lines 385-411: the per-format sizes and the direct buffer
add_init_format(M, g, img, tt, fmt, e, gpu) ==
    LET im == M.images[img]
        bad == \/ fmt = PNG /\ g.data_sz > MAX_DATA_SZ
               \/ fmt \in {RGB, RGBA} /\ g.data_width * g.data_height * (fmt \div 8) = 0
               \/ fmt \notin {PNG, RGB, RGBA}
        data_sz == IF fmt = PNG
                   THEN (IF g.data_sz # 0 THEN g.data_sz ELSE PNG_DEFAULT_DATA_SZ)
                   ELSE g.data_width * g.data_height * (fmt \div 8)
        ld1 == [im.load_data EXCEPT !.data_sz = data_sz,
                                    !.is_opaque = (fmt = RGB)]
        ld2 == IF tt = "d"
               THEN [ld1 EXCEPT !.buf_capacity = data_sz + BufferSlack(g.compressed),
                                !.buf = e.malloc_ok, !.buf_used = 0]
               ELSE ld1
        M1 == [M EXCEPT !.images[img].load_data = ld2,
                        !.loading_image =
                            IF tt = "d" /\ g.more # 0 THEN im.internal_id ELSE @]
    IN IF bad
       THEN ABRT(IF fmt \in {RGB, RGBA}
                 THEN [M EXCEPT !.images[img].load_data.data_sz = 0] ELSE M,
                 img, "EINVAL")
       ELSE IF tt = "d" /\ ~e.malloc_ok THEN ABRT(M1, img, "ENOMEM")
       ELSE add_payload(M1, g, img, tt, fmt, e, gpu)

\* lines 369-371: an existing image is emptied for the new transmission
reset_existing(img) ==
    free_refs_data([img EXCEPT !.load_data = free_load_data(@),
                               !.data_loaded = FALSE])

\* lines 375-377: a new image takes the next internal id and the ids of the
\* command
init_new_image_without_increment(M, img, iid, image_number) ==
    [M EXCEPT !.images[img].internal_id = M.internal_id_counter,
              !.images[img].client_id = iid,
              !.images[img].client_number = image_number]

init_new_image(M, img, iid, image_number) ==
    [M EXCEPT !.images[img].internal_id = M.internal_id_counter,
              !.images[img].client_id = iid,
              !.images[img].client_number = image_number,
              !.internal_id_counter = @ + 1]

\* lines 361-384: the initial command of a transmission
add_init(M0, g, iid, tt, fmt, e, gpu) ==
    LET M == [M0 EXCEPT !.last_init_graphics_command = [g EXCEPT !.id = iid],
                        !.loading_image = 0]
    IN IF g.data_width > MAX_DIMENSION \/ g.data_height > MAX_DIMENSION
       THEN ABRT(M, 0, "EINVAL")
       ELSE
       LET f == find_or_create_image(remove_images(M, add_trim_predicate, 0), iid)
           img == f.image
           old == f.M.images[img]
           M1 == IF f.existing
                 THEN [f.M EXCEPT !.images[img] = reset_existing(old),
                                  !.layers_dirty = TRUE]
                 ELSE init_new_image(f.M, img, iid, g.image_number)
           M2 == IF ~f.existing /\ iid = 0 /\ g.image_number # 0
                 THEN LET id == get_free_client_id(M1)
                      IN [M1 EXCEPT !.images[img].client_id = id,
                                    !.last_init_graphics_command.id = id]
                 ELSE M1
           M3 == [M2 EXCEPT !.images = Touch(@, img),
                            !.images[img].used_storage = 0,
                            !.images[img].width = g.data_width,
                            !.images[img].height = g.data_height]
       IN add_init_format(M3, g, img, tt, fmt, e, gpu)

\* lines 412-423: a further chunk of the transmission in progress
add_continue_keeping_loading_image(M0, g0, e, gpu) ==
    LET M == [M0 EXCEPT !.last_init_graphics_command.more = g0.more,
                        !.last_init_graphics_command.payload_sz = g0.payload_sz]
        g == M.last_init_graphics_command
        img == img_by_internal_id(M, M.loading_image)
    IN IF img = 0 THEN AddResult(set_command_failed_response(M, "EILSEQ"), 0)
       ELSE add_payload(M, g, img, TransmissionType(g), Format(g), e, gpu)

add_continue(M0, g0, e, gpu) ==
    LET M == [M0 EXCEPT !.last_init_graphics_command.more = g0.more,
                        !.last_init_graphics_command.payload_sz = g0.payload_sz]
        g == M.last_init_graphics_command
        img == img_by_internal_id(M, M.loading_image)
    IN IF img = 0 THEN ABRT(M, 0, "EILSEQ")
       ELSE add_payload(M, g, img, TransmissionType(g), Format(g), e, gpu)

handle_add_command_always_init(M, g, iid, e, gpu) ==
    add_init(M, g, iid, TransmissionType(g), Format(g), e, gpu)

handle_add_command(M, g, iid, e, gpu) ==
    IF TransmissionType(g) = "d" /\ M.loading_image # 0
    THEN add_continue(M, g, e, gpu)
    ELSE add_init(M, g, iid, TransmissionType(g), Format(g), e, gpu)

\* ------------------------------------------------------------- responses

\* The pieces a response is printed from: "G", then "i=" and the id,
\* ",I=" and the number, ",p=" and the placement id where these are not 0,
\* then ";" and "OK" or the error kind (the message that follows the kind's
\* colon is left out).
ResponseText(iid, image_number, placement_id, msg) ==
    <<"G">>
    \o (IF iid # 0 THEN <<"i=", iid>> ELSE <<>>)
    \o (IF image_number # 0 THEN <<",I=", image_number>> ELSE <<>>)
    \o (IF placement_id # 0 THEN <<",p=", placement_id>> ELSE <<>>)
    \o <<";", msg>>

finish_command_response_when_not_loaded(g, command_response, data_loaded, iid, placement_id, image_number) ==
    LET is_ok_response == command_response = ""
    IN IF g.quiet # 0 /\ (is_ok_response \/ g.quiet > 1) THEN NoResponse
       ELSE IF iid # 0 \/ image_number # 0
            THEN [kind |-> "G",
                  text |-> ResponseText(iid, image_number, placement_id,
                               IF is_ok_response THEN "OK" ELSE command_response)]
            ELSE NoResponse

\* finish_command_response: NoResponse is the NULL return
finish_command_response(g, command_response, data_loaded, iid, placement_id, image_number) ==
    LET is_ok_response == command_response = ""
    IN IF g.quiet # 0 /\ (is_ok_response \/ g.quiet > 1) THEN NoResponse
       ELSE IF iid # 0 \/ image_number # 0
            THEN IF is_ok_response /\ ~data_loaded THEN NoResponse
                 ELSE [kind |-> "G",
                       text |-> ResponseText(iid, image_number, placement_id,
                                    IF is_ok_response THEN "OK" ELSE command_response)]
            ELSE NoResponse

\* ------------------------------------------------------------- placements

update_dest_rect(ref, num_cols, num_rows, c) ==
    LET tc == ref.src_width + ref.cell_x_offset
        qc == tc \div c.width
        cols == IF num_cols = 0
                THEN (IF tc > qc * c.width THEN qc + 1 ELSE qc) ELSE num_cols
        tr == ref.src_height + ref.cell_y_offset
        qr == tr \div c.height
        rows == IF num_rows = 0
                THEN (IF tr > qr * c.height THEN qr + 1 ELSE qr) ELSE num_rows
    IN [ref EXCEPT !.effective_num_rows = rows, !.effective_num_cols = cols]

\* the placement of img that handle_put_command overwrites, 0 for a new one
put_target_ref_always_new(img, g) == 0

put_target_ref(img, g) ==
    LET hits == {i \in 1..Len(img.refs) : img.refs[i].client_id = g.placement_id}
    IN IF g.placement_id # 0 /\ img.client_id # 0 /\ hits # {}
       THEN CHOOSE i \in hits : \A j \in hits : i <= j
       ELSE 0

\* lines 601-611: the placement's fields
put_fill_ref(ref0, img, g, c, cur) ==
    LET w == IF g.width # 0 THEN g.width ELSE img.width
        h == IF g.height # 0 THEN g.height ELSE img.height
        ref == [ref0 EXCEPT
                  !.src_x = g.x_offset, !.src_y = g.y_offset,
                  !.src_width = MIN(w, img.width -
                      (IF img.width > g.x_offset THEN g.x_offset ELSE img.width)),
                  !.src_height = MIN(h, img.height -
                      (IF img.height > g.y_offset THEN g.y_offset ELSE img.height)),
                  !.z_index = g.z_index,
                  !.start_row = cur.y, !.start_column = cur.x,
                  !.cell_x_offset = MIN(g.cell_x_offset, c.width - 1),
                  !.cell_y_offset = MIN(g.cell_y_offset, c.height - 1),
                  !.num_cols = g.num_cells, !.num_rows = g.num_lines,
                  !.client_id = IF img.client_id # 0 THEN g.placement_id ELSE @]
    IN update_dest_rect(ref, g.num_cells, g.num_lines, c)

\* handle_put_command: the manager, the returned image id and the cursor *c
\* as the command leaves it (cur is *c as the caller passed it)
handle_put_command(M, g, cur, given, c) ==
    LET idx == IF given # 0 THEN given
               ELSE IF g.id # 0 THEN img_by_client_id(M, g.id)
               ELSE IF g.image_number # 0 THEN img_by_client_number(M, g.image_number)
               ELSE 0
    IN IF idx = 0
       THEN [M |-> set_command_failed_response(M, "ENOENT"), id |-> g.id,
             cursor |-> cur]
       ELSE
       LET img == M.images[idx]
           j == put_target_ref(img, g)
           k == IF j = 0 THEN Len(img.refs) + 1 ELSE j
           ref == put_fill_ref(IF j = 0 THEN ZeroRef ELSE img.refs[j],
                               img, g, c, cur)
           refs == IF j = 0 THEN Append(img.refs, ref)
                   ELSE [img.refs EXCEPT ![j] = ref]
       IN IF ~img.data_loaded
          THEN [M |-> set_command_failed_response(M, "ENOENT"), id |-> img.client_id,
                cursor |-> cur]
          ELSE [M |-> [M EXCEPT !.layers_dirty = TRUE,
                                !.images = Touch(@, idx),
                                !.images[idx].refs = refs],
                id |-> img.client_id,
                cursor |-> [x |-> cur.x + ref.effective_num_cols,
                            y |-> cur.y + ref.effective_num_rows - 1]]

\* ------------------------------------------------- image lifetime, scroll

\* filter_refs (lines 707-723).  filter_func(ref, img) says which placements go.
RECURSIVE filter_refs_from(_, _, _, _, _)
filter_refs_from(M, free_images, filter_func(_, _), only_first_image, i) ==
    IF i = 0 THEN M
    ELSE LET img == M.images[i]
             refs == SelectSeq(img.refs, LAMBDA r : ~filter_func(r, img))
             matched == Len(refs) # Len(img.refs)
             M1 == [M EXCEPT !.images[i].refs = refs,
                             !.layers_dirty = @ \/ matched]
             M2 == IF Len(refs) = 0 /\ (free_images \/ img.client_id = 0)
                   THEN remove_image(M1, i) ELSE M1
         IN IF only_first_image /\ matched THEN M2
            ELSE filter_refs_from(M2, free_images, filter_func, only_first_image, i - 1)

filter_refs(M, free_images, filter_func(_, _), only_first_image) ==
    filter_refs_from(M, free_images, filter_func, only_first_image, Len(M.images))

\* modify_refs (lines 726-735).  filter_func(ref, img) is the placement as the function
\* leaves it and whether it goes: [ref |-> ..., remove |-> ...].
RECURSIVE modify_refs_from(_, _, _, _)
modify_refs_from(M, free_images, filter_func(_, _), i) ==
    IF i = 0 THEN M
    ELSE LET img == M.images[i]
             done == AsSeq([j \in 1..Len(img.refs) |-> filter_func(img.refs[j], img)])
             kept == SelectSeq(done, LAMBDA d : ~d.remove)
             refs == AsSeq([j \in 1..Len(kept) |-> kept[j].ref])
             M1 == [M EXCEPT !.images[i].refs = refs]
             M2 == IF Len(refs) = 0 /\ (free_images \/ img.client_id = 0)
                   THEN remove_image(M1, i) ELSE M1
         IN modify_refs_from(M2, free_images, filter_func, i - 1)

modify_refs(M, free_images, filter_func(_, _)) ==
    modify_refs_from(M, free_images, filter_func, Len(M.images))

scroll_filter_func(ref, d) ==
    LET r == [ref EXCEPT !.start_row = @ + d.amt]
    IN [ref |-> r, remove |-> r.start_row + r.effective_num_rows <= d.limit]

ref_within_region(ref, margin_top, margin_bottom) ==
    /\ ref.start_row >= margin_top
    /\ ULe(ref.start_row + ref.effective_num_rows, margin_bottom)

ref_outside_region(ref, margin_top, margin_bottom) ==
    \/ ULe(ref.start_row + ref.effective_num_rows, margin_top)
    \/ ref.start_row > margin_bottom

\* lines 759-781: the placement moved by d.amt and clipped to the margins
scroll_shift_and_clip(ref, d, c) ==
    LET r == [ref EXCEPT !.start_row = @ + d.amt]
        up_rows == d.margin_top - r.start_row
        up_amt == c.height * up_rows
        down_rows == r.start_row + r.effective_num_rows - d.margin_bottom
        down_amt == c.height * down_rows
    IN IF ref_outside_region(r, d.margin_top, d.margin_bottom)
       THEN [ref |-> r, remove |-> TRUE]
       ELSE IF r.start_row < d.margin_top
       THEN IF ULe(r.src_height, up_amt) THEN [ref |-> r, remove |-> TRUE]
            ELSE LET r2 == [r EXCEPT !.src_y = @ + up_amt,
                                     !.src_height = @ - up_amt,
                                     !.effective_num_rows = @ - up_rows,
                                     !.start_row = @ + up_rows]
                 IN [ref |-> r2,
                     remove |-> ref_outside_region(r2, d.margin_top, d.margin_bottom)]
       ELSE IF ULt(d.margin_bottom, r.start_row + r.effective_num_rows)
       THEN IF ULe(r.src_height, down_amt) THEN [ref |-> r, remove |-> TRUE]
            ELSE LET r2 == [r EXCEPT !.src_height = @ - down_amt,
                                     !.effective_num_rows = @ - down_rows]
                 IN [ref |-> r2,
                     remove |-> ref_outside_region(r2, d.margin_top, d.margin_bottom)]
       ELSE [ref |-> r, remove |-> FALSE]

scroll_filter_margins_func(ref, d, c) ==
    IF ref_within_region(ref, d.margin_top, d.margin_bottom)
    THEN scroll_shift_and_clip(ref, d, c)
    ELSE [ref |-> ref, remove |-> FALSE]

grman_scroll_images_keeping_images(M, d, c) ==
    IF Len(M.images) = 0 THEN M
    ELSE LET M1 == [M EXCEPT !.layers_dirty = TRUE]
         IN IF d.has_margins
            THEN modify_refs(M1, FALSE, LAMBDA r, img : scroll_filter_margins_func(r, d, c))
            ELSE modify_refs(M1, FALSE, LAMBDA r, img : scroll_filter_func(r, d))

grman_scroll_images(M, d, c) ==
    IF Len(M.images) = 0 THEN M
    ELSE LET M1 == [M EXCEPT !.layers_dirty = TRUE]
         IN IF d.has_margins
            THEN modify_refs(M1, TRUE, LAMBDA r, img : scroll_filter_margins_func(r, d, c))
            ELSE modify_refs(M1, TRUE, LAMBDA r, img : scroll_filter_func(r, d))

clear_filter_func(ref) == ref.start_row + ref.effective_num_rows > 0

clear_all_filter_func(ref) == TRUE

grman_clear(M, all) ==
    IF all THEN filter_refs(M, TRUE, LAMBDA r, img : clear_all_filter_func(r), FALSE)
    ELSE filter_refs(M, TRUE, LAMBDA r, img : clear_filter_func(r), FALSE)

id_filter_func(ref, img, g) ==
    IF g.id # 0 /\ img.client_id = g.id
    THEN g.placement_id = 0 \/ ref.client_id = g.placement_id
    ELSE FALSE

number_filter_func(ref, img, g) ==
    IF g.image_number # 0 /\ img.client_number = g.image_number
    THEN g.placement_id = 0 \/ ref.client_id = g.placement_id
    ELSE FALSE

x_filter_func(ref, g) ==
    /\ ref.start_column <= g.x_offset - 1
    /\ g.x_offset - 1 < ref.start_column + ref.effective_num_cols

\* the second conjunct compares two unsigned values
y_filter_func(ref, g) ==
    /\ ref.start_row <= g.y_offset - 1
    /\ ULt(g.y_offset - 1, ref.start_row + ref.effective_num_rows)

z_filter_func(ref, g) == ref.z_index = g.z_index

point_filter_func(ref, g) == x_filter_func(ref, g) /\ y_filter_func(ref, g)

point3d_filter_func(ref, g) == z_filter_func(ref, g) /\ point_filter_func(ref, g)

Upper_never(delete_action) == FALSE

\* g->delete_action == u, u being the upper case letter of the case taken
Upper(delete_action) == delete_action \in {"A", "I", "P", "Q", "X", "Y", "Z", "C", "N"}

handle_delete_command(M, g, cur) ==
    LET a == g.delete_action
        free == Upper(a)
        d == [g EXCEPT !.x_offset = cur.x + 1, !.y_offset = cur.y + 1]
    IN CASE a \in {"", "a", "A"} ->
              filter_refs(M, free, LAMBDA r, img : clear_filter_func(r), FALSE)
         [] a \in {"i", "I"} ->
              filter_refs(M, free, LAMBDA r, img : id_filter_func(r, img, g), FALSE)
         [] a \in {"p", "P"} ->
              filter_refs(M, free, LAMBDA r, img : point_filter_func(r, g), FALSE)
         [] a \in {"q", "Q"} ->
              filter_refs(M, free, LAMBDA r, img : point3d_filter_func(r, g), FALSE)
         [] a \in {"x", "X"} ->
              filter_refs(M, free, LAMBDA r, img : x_filter_func(r, g), FALSE)
         [] a \in {"y", "Y"} ->
              filter_refs(M, free, LAMBDA r, img : y_filter_func(r, g), FALSE)
         [] a \in {"z", "Z"} ->
              filter_refs(M, free, LAMBDA r, img : z_filter_func(r, g), FALSE)
         [] a \in {"c", "C"} ->
              filter_refs(M, free, LAMBDA r, img : point_filter_func(r, d), FALSE)
         [] a \in {"n", "N"} ->
              filter_refs(M, free, LAMBDA r, img : number_filter_func(r, img, g), TRUE)
         [] OTHER -> M

grman_rescale(M, c) ==
    [M EXCEPT !.layers_dirty = TRUE,
              !.images = AsSeq([i \in 1..Len(@) |->
                  [@[i] EXCEPT !.refs = AsSeq([j \in 1..Len(@) |->
                      LET ref == [@[j] EXCEPT
                                    !.cell_x_offset = MIN(@, c.width - 1),
                                    !.cell_y_offset = MIN(@, c.height - 1)]
                      IN update_dest_rect(ref, ref.num_cols, ref.num_rows, c)])]])]

grman_resize_keeping_layers(M) == M

grman_resize(M) == [M EXCEPT !.layers_dirty = TRUE]

\* ----------------------------------------------------------------- layers

\* The caller of grman_update_layers counts the screen in pixels: dx and dy
\* are the cell's width and height, screen_left and screen_top are 0 and y
\* grows upwards, so that every float of the function is a small integer and
\* its arithmetic is exact.  The screen has ScreenRows rows (num_rows).
ScreenRows == 2

\* a - b does not fit in an int
SubOverflows(a, b) ==
    \/ b < 0 /\ a > INT32_MAX + b
    \/ b > 0 /\ a < (0 - INT32_MAX - 1) + b

\* cmp_by_zindex_and_image where the subtraction of the z_index does not
\* overflow
cmp_by_zindex_and_image(a, b) ==
    LET ans == a.z_index - b.z_index
    IN IF ans = 0 THEN a.image_id - b.image_id ELSE ans

\* the ImageRenderData of a placement: set_vertex_data keeps the source
\* rectangle and the destination rectangle r
render_data_of(img, ref, r) ==
    [z_index |-> ref.z_index, image_id |-> img.internal_id,
     texture_id |-> img.texture_id, group_count |-> 0,
     src_rect |-> [x |-> ref.src_x, y |-> ref.src_y,
                   width |-> ref.src_width, height |-> ref.src_height,
                   of_width |-> img.width, of_height |-> img.height],
     dest_rect |-> r]

\* lines 664-672: the rectangle of a placement on the screen
layer_rect(ref, scrolled_by, c) ==
    LET dx == c.width
        dy == c.height
        y0 == 0 - dy * scrolled_by
        top == y0 - ref.start_row * dy - ref.cell_y_offset
        bottom == IF ref.num_rows > 0 THEN y0 - (ref.start_row + ref.num_rows) * dy
                  ELSE top - ref.src_height
        left == ref.start_column * dx + ref.cell_x_offset
        right == IF ref.num_cols > 0 THEN (ref.start_column + ref.num_cols) * dx
                 ELSE left + ref.src_width
    IN [left |-> left, top |-> top, right |-> right, bottom |-> bottom]

\* line 667
layer_visible(r, c) == ~(r.top <= 0 - c.height * ScreenRows \/ r.bottom >= 0)

\* lines 663-686: the render data of the visible placements of the images
\* from the i-th on, in the order of the arrays
RECURSIVE visible_refs_from(_, _, _, _)
visible_refs_from(M, scrolled_by, c, i) ==
    IF i > Len(M.images) THEN <<>>
    ELSE LET img == M.images[i]
             all == AsSeq([j \in 1..Len(img.refs) |->
                        render_data_of(img, img.refs[j],
                                       layer_rect(img.refs[j], scrolled_by, c))])
         IN SelectSeq(all, LAMBDA rd : layer_visible(rd.dest_rect, c))
                \o visible_refs_from(M, scrolled_by, c, i + 1)

\* lines 690-700: i and start count from 0 as in the code
RECURSIVE group_scan(_, _, _)
group_scan(rd, i, image_id) ==
    IF i < Len(rd) - 1
    THEN (IF rd[i + 2].image_id = image_id THEN group_scan(rd, i + 1, image_id)
          ELSE i + 1)
    ELSE i

RECURSIVE group_counts_from(_, _)
group_counts_from(rd, start) ==
    IF start >= Len(rd) THEN rd
    ELSE LET i == IF start = Len(rd) - 1 THEN Len(rd)
                  ELSE group_scan(rd, start, rd[start + 1].image_id)
         IN group_counts_from([rd EXCEPT ![start + 1].group_count = i - start], i)

\* what qsort(render_data, count, ..., cmp_by_zindex_and_image) may leave:
\* an order that the comparisons agree with, and any order when a
\* comparison overflows (the subtraction of two int is then undefined)
qsort_render_data(rd) ==
    LET n == Len(rd)
        undefined == \E i, j \in 1..n : SubOverflows(rd[i].z_index, rd[j].z_index)
        sorted(p) == \A i \in 1..(n - 1) :
                        cmp_by_zindex_and_image(rd[p[i]], rd[p[i + 1]]) <= 0
    IN {AsSeq([i \in 1..n |-> rd[p[i]]]) :
           p \in {q \in Permutations(1..n) : undefined \/ sorted(q)}}

\* grman_update_layers: the outcomes [M, ret] of a call
grman_update_layers(M, scrolled_by, c) ==
    LET M1 == [M EXCEPT !.layers_dirty = @ \/ (M.last_scrolled_by # scrolled_by),
                        !.last_scrolled_by = scrolled_by]
        rd == visible_refs_from(M1, scrolled_by, c, 1)
        z(k) == rd[k].z_index
        M2 == [M1 EXCEPT
                 !.layers_dirty = FALSE,
                 !.num_of_below_refs =
                     Cardinality({k \in 1..Len(rd) : z(k) < 0 - 1073741824}),
                 !.num_of_negative_refs =
                     Cardinality({k \in 1..Len(rd) : z(k) >= 0 - 1073741824 /\ z(k) < 0}),
                 !.num_of_positive_refs =
                     Cardinality({k \in 1..Len(rd) : z(k) >= 0}),
                 !.render_data = rd]
    IN IF ~M1.layers_dirty THEN {[M |-> M1, ret |-> FALSE]}
       ELSE IF Len(rd) = 0 THEN {[M |-> M2, ret |-> FALSE]}
       ELSE {[M |-> [M2 EXCEPT !.render_data = group_counts_from(s, 0)], ret |-> TRUE] :
                s \in qsort_render_data(rd)}

\* ------------------------------------------------------------- dispatcher

add_quota_unchecked(M, added_image_id) == M

\* lines 933-934: the quota after an add-type command
add_quota(M, added_image_id) ==
    IF M.used_storage > STORAGE_LIMIT
    THEN apply_storage_quota(M, STORAGE_LIMIT, added_image_id)
    ELSE M

\* lines 932-934, put being what the put of action T left
add_trim_not_for_query(g, response, put, added_image_id) ==
    [M |-> add_quota(put.M, added_image_id),
     ret |-> response, added |-> added_image_id, cursor |-> put.cursor]

add_trim(g, response, put, added_image_id) ==
    [M |-> add_quota(IF g.action = "q"
                     THEN remove_images(put.M, add_trim_predicate, 0)
                     ELSE put.M, added_image_id),
     ret |-> response, added |-> added_image_id, cursor |-> put.cursor]

\* lines 930-931: the put of action T, and the id of the added image
add_put_of_chunk(g, cur, c, added, response) ==
    add_trim(g, response,
             IF /\ g.action = "T"
                /\ added.image # 0
                /\ added.M.images[added.image].data_loaded
             THEN handle_put_command(added.M, g, cur, added.image, c)
             ELSE [M |-> added.M, id |-> 0, cursor |-> cur],
             IF added.image # 0 THEN added.M.images[added.image].internal_id ELSE 0)

add_put(g, cur, c, added, response) ==
    add_trim(g, response,
             IF /\ added.M.last_init_graphics_command.action = "T"
                /\ added.image # 0
                /\ added.M.images[added.image].data_loaded
             THEN handle_put_command(added.M, added.M.last_init_graphics_command,
                                     cur, added.image, c)
             ELSE [M |-> added.M, id |-> 0, cursor |-> cur],
             IF added.image # 0 THEN added.M.images[added.image].internal_id ELSE 0)

\* lines 928-929: the response to an add-type command, added being what
\* handle_add_command returned
add_response(g, cur, c, added) ==
    add_put(g, cur, c, added,
            IF g.action = "q"
            THEN finish_command_response(g, added.M.command_response,
                                         added.image # 0, g.id, 0, 0)
            ELSE finish_command_response(g, added.M.command_response,
                     added.image # 0,
                     added.M.last_init_graphics_command.id,
                     added.M.last_init_graphics_command.placement_id,
                     added.M.last_init_graphics_command.image_number))

\* lines 941-942: the response to a put command
put_response(g, put) ==
    [M |-> put.M, added |-> 0, cursor |-> put.cursor,
     ret |-> finish_command_response(g, put.M.command_response, TRUE,
                                     put.id, g.placement_id, g.image_number)]

\* lines 919-952: the switch on the action; the manager, the returned
\* response, the cursor *c as the command leaves it, and the internal id of
\* the image that handle_add_command returned (0 for NULL or no add)
handle_action(M, g, cur, c, e, gpu) ==
    LET Same == [M |-> M, ret |-> NoResponse, added |-> 0, cursor |-> cur]
    IN CASE g.action \in {"", "t", "T", "q"} ->
              IF g.action = "q" /\ g.id = 0 THEN Same
              ELSE add_response(g, cur, c,
                     handle_add_command(M, g, IF g.action = "q" THEN 0 ELSE g.id,
                                        e, gpu))
         [] g.action = "p" ->
              IF g.id = 0 /\ g.image_number = 0 THEN Same
              ELSE put_response(g, handle_put_command(M, g, cur, 0, c))
         [] g.action = "d" -> [Same EXCEPT !.M = handle_delete_command(M, g, cur)]
         [] OTHER -> Same

\* grman_handle_command
grman_handle_command_without_rejection(M0, g, cur, c, e, gpu) ==
    handle_action([M0 EXCEPT !.command_response = ""], g, cur, c, e, gpu)

grman_handle_command(M0, g, cur, c, e, gpu) ==
    IF g.id # 0 /\ g.image_number # 0
    THEN [M |-> [M0 EXCEPT !.command_response = "EINVAL"],
          ret |-> finish_command_response(g, "EINVAL", FALSE, g.id,
                                          g.placement_id, g.image_number),
          added |-> 0, cursor |-> cur]
    ELSE handle_action([M0 EXCEPT !.command_response = ""], g, cur, c, e, gpu)

\* ------------------------------------------------------------ the machine

\* What the last operation was: of a command, how the dispatcher took it,
\* the cursor it was given, the image handle_add_command returned and
\* whether apply_storage_quota ran; cont: an add-type command that met a
\* transmission in progress and was taken as its next chunk; acc: the bytes
\* the transmission has sent once a direct chunk is counted in.
NoOp == [op |-> "init", c |-> [x |-> 0, y |-> 0], added |-> 0, evicted |-> FALSE,
         cont |-> FALSE, acc |-> 0]

OpOf(g) ==
    IF g.id # 0 /\ g.image_number # 0 THEN "rejected"
    ELSE CASE g.action \in {"", "t", "T"} -> "add"
           [] g.action = "q" -> IF g.id = 0 THEN "ignored" ELSE "query"
           [] g.action = "p" -> IF g.id = 0 /\ g.image_number = 0 THEN "ignored"
                                ELSE "put"
           [] g.action = "d" -> "delete"
           [] OTHER -> "ignored"

IsContinuation(M, g) ==
    /\ ~(g.id # 0 /\ g.image_number # 0)
    /\ g.action \in {"", "t", "T", "q"}
    /\ ~(g.action = "q" /\ g.id = 0)
    /\ TransmissionType(g) = "d"
    /\ M.loading_image # 0

Accumulated(M, g) ==
    LET img == img_by_internal_id(M, M.loading_image)
    IN IF IsContinuation(M, g)
       THEN (IF img = 0 THEN 0 ELSE M.images[img].load_data.buf_used + g.payload_sz)
       ELSE IF OpOf(g) \in {"add", "query"} /\ TransmissionType(g) = "d"
            THEN g.payload_sz ELSE 0

Init ==
    /\ images = <<>>
    /\ used_storage = 0
    /\ loading_image = 0
    /\ last_init_graphics_command = ZeroCommand
    /\ layers_dirty = FALSE
    /\ internal_id_counter = 1
    /\ cursor = [x |-> 0, y |-> 0]
    /\ cell = [width |-> 2, height |-> 2]
    /\ ret = NoResponse
    /\ send_to_gpu = TRUE
    /\ heap_overflow = FALSE
    /\ last_op = NoOp
    /\ render_data = <<>>
    /\ last_scrolled_by = 0
    /\ num_of_below_refs = 0
    /\ num_of_negative_refs = 0
    /\ num_of_positive_refs = 0

\* The part of the state space that is explored.
Bounded(M) ==
    /\ Len(M.images) <= MaxImages
    /\ M.internal_id_counter <= MaxInternalId + 1
    /\ \A i \in 1..Len(M.images) :
         /\ Len(M.images[i].refs) <= MaxRefs
         /\ M.images[i].load_data.buf_used <= MaxBufUsed
         /\ \A j \in 1..Len(M.images[i].refs) :
              M.images[i].refs[j].start_row \in (0 - MaxRow)..MaxRow

\* The manager's fields take the values of M.
Becomes(M) ==
    /\ Bounded(M)
    /\ images' = M.images
    /\ used_storage' = M.used_storage
    /\ loading_image' = M.loading_image
    /\ last_init_graphics_command' = M.last_init_graphics_command
    /\ layers_dirty' = M.layers_dirty
    /\ internal_id_counter' = M.internal_id_counter
    /\ heap_overflow' = M.heap_overflow
    /\ render_data' = M.render_data
    /\ last_scrolled_by' = M.last_scrolled_by
    /\ num_of_below_refs' = M.num_of_below_refs
    /\ num_of_negative_refs' = M.num_of_negative_refs
    /\ num_of_positive_refs' = M.num_of_positive_refs

\* grman_handle_command(self, g, payload, c, is_dirty, cell): cur is the
\* caller's cursor, e what the system answers during the call
Returns(g, cur, r) ==
    /\ Becomes(r.M)
    /\ ret' = r.ret
    /\ cursor' = r.cursor
    /\ last_op' = [op |-> OpOf(g), c |-> cur, added |-> r.added,
                   evicted |-> r.M.evicted,
                   cont |-> IsContinuation(Self, g),
                   acc |-> Accumulated(Self, g)]

HandleCommand(g, cur, e) ==
    /\ ~heap_overflow
    /\ Returns(g, cur, grman_handle_command(Self, g, cur, cell, e, send_to_gpu))
    /\ UNCHANGED <<cell, send_to_gpu>>

ScrollImages(d) ==
    /\ ~heap_overflow
    /\ Becomes(grman_scroll_images(Self, d, cell))
    /\ last_op' = [NoOp EXCEPT !.op = "scroll"]
    /\ UNCHANGED <<cell, send_to_gpu, ret, cursor>>

Clear(all) ==
    /\ ~heap_overflow
    /\ Becomes(grman_clear(Self, all))
    /\ last_op' = [NoOp EXCEPT !.op = "clear"]
    /\ UNCHANGED <<cell, send_to_gpu, ret, cursor>>

Rescale(c) ==
    /\ ~heap_overflow
    /\ Becomes(grman_rescale(Self, c))
    /\ cell' = c
    /\ last_op' = [NoOp EXCEPT !.op = "rescale"]
    /\ UNCHANGED <<send_to_gpu, ret, cursor>>

Resize ==
    /\ ~heap_overflow
    /\ Becomes(grman_resize(Self))
    /\ last_op' = [NoOp EXCEPT !.op = "resize"]
    /\ UNCHANGED <<cell, send_to_gpu, ret, cursor>>

\* grman_update_layers(self, scrolled_by, ...), ret being what it returns
UpdateLayers(scrolled_by) ==
    /\ ~heap_overflow
    /\ \E r \in grman_update_layers(Self, scrolled_by, cell) :
          /\ Becomes(r.M)
          /\ ret' = [kind |-> "bool", value |-> r.ret]
    /\ last_op' = [NoOp EXCEPT !.op = "update_layers"]
    /\ UNCHANGED <<cell, send_to_gpu, cursor>>

\* pyimage_for_client_id
ImageForClientId(id) ==
    /\ ~heap_overflow
    /\ LET f == find_or_create_image(Self, id)
       IN /\ Becomes(f.M)
          /\ ret' = IF f.existing THEN [kind |-> "image", i |-> id] ELSE NoResponse
    /\ last_op' = [NoOp EXCEPT !.op = "image_for_client_id"]
    /\ UNCHANGED <<cell, send_to_gpu, cursor>>

\* pyset_send_to_gpu
SetSendToGpu(b) ==
    /\ ~heap_overflow
    /\ send_to_gpu' = b
    /\ last_op' = [NoOp EXCEPT !.op = "set_send_to_gpu"]
    /\ UNCHANGED <<images, used_storage, loading_image, last_init_graphics_command,
                   layers_dirty, internal_id_counter, cursor, cell, ret,
                   heap_overflow, render_data, last_scrolled_by,
                   num_of_below_refs, num_of_negative_refs, num_of_positive_refs>>

\* ------------------------------------------------------------ the inputs

Transmit(action, id, number, tt, fmt, w, h) ==
    [ZeroCommand EXCEPT !.action = action, !.id = id, !.image_number = number,
                        !.transmission_type = tt, !.format = fmt,
                        !.data_width = w, !.data_height = h]

Chunk(g, more, payload_sz) == [g EXCEPT !.more = more, !.payload_sz = payload_sz]

Origin == [x |-> 0, y |-> 0]

\* direct transmissions of a 1x1 image in chunks of 2 or 4 bytes
DirectCmds ==
    {Chunk(Transmit(a[1], a[2], 0, "d", fmt, 1, 1), more, sz) :
        a \in {<<"t", 1>>, <<"", 0>>},
        fmt \in {RGB, RGBA}, more \in {0, 1}, sz \in {2, 4}}

QueryCmds ==
    {Chunk(Transmit("q", 1, 0, "d", RGBA, 1, 1), more, 4) : more \in {0, 1}}

DeleteCmds ==
    {[ZeroCommand EXCEPT !.action = "d", !.delete_action = a] : a \in {"a", "A"}}

ScrollUp == [amt |-> -1, limit |-> 0, margin_top |-> 0, margin_bottom |-> 0,
             has_margins |-> FALSE]

\* --------------------------------------------------------- specification

StorageOf(img) == img.used_storage

\* the exploration stops where used_storage has drifted from the images' sum
\* by more than MaxLeak
LeakBounded == used_storage - SeqSum(images, StorageOf) <= MaxLeak

\* Direct transmissions of small images and what removes images between
\* their chunks.

Add == \E g \in DirectCmds : HandleCommand(g, Origin, DefaultEnv) /\ LeakBounded'

Query == \E g \in QueryCmds : HandleCommand(g, Origin, DefaultEnv)

Delete == \E g \in DeleteCmds : HandleCommand(g, Origin, DefaultEnv)

Scroll == ScrollImages(ScrollUp)

ClearScreen == \E all \in BOOLEAN : Clear(all)

Next ==
    \/ Add
    \/ Query
    \/ Delete
    \/ Scroll
    \/ ClearScreen

Spec == Init /\ [][Next]_vars

\* ------------------------------------------- specification of the loaders

\* Transmissions to client id 1 by every medium, with the answers of the
\* file system and of the decoders.

\* a 1x1 RGB image sent directly in chunks of 2 bytes, or deflated in one
LoadDirectCmds ==
    {Chunk(Transmit("t", 1, 0, "d", RGB, 1, 1), more, 2) : more \in {0, 1}}
    \cup {[Chunk(Transmit("t", 1, 0, "d", RGB, 1, 1), 0, 2) EXCEPT !.compressed = "z"]}

\* a PNG declared as 1 byte, sent directly in chunks of 12 or 30 bytes
PngCmds ==
    {[Chunk(Transmit("t", 1, 0, "d", PNG, 0, 0), more, sz) EXCEPT !.data_sz = 1] :
        more \in {0, 1}, sz \in {12, 30}}

\* transmissions by file, temporary file and shared memory: the payload is
\* the file's name, and a PNG is declared as 1 byte
FileCmds ==
    {[Chunk(Transmit("t", 1, 0, m[1], m[2], 1, 1), 0, 8)
         EXCEPT !.compressed = m[3], !.data_sz = IF m[2] = PNG THEN 1 ELSE 0] :
        m \in {<<"f", RGB, "">>, <<"t", RGB, "z">>, <<"s", PNG, "">>, <<"f", PNG, "z">>}}

ZlibEnvs == {[DefaultEnv EXCEPT !.zlib_ok = z] : z \in BOOLEAN}

PngEnvs == {[DefaultEnv EXCEPT !.png_ok = p] : p \in BOOLEAN}

\* a file of 3 bytes unless said otherwise
FileEnvs ==
    {[DefaultEnv EXCEPT !.st_size = 3, !.zlib_ok = z, !.png_ok = p] :
        z \in BOOLEAN, p \in BOOLEAN}
    \cup {[DefaultEnv EXCEPT !.st_size = 3, !.fd_ok = FALSE],
          [DefaultEnv EXCEPT !.st_size = 3, !.mmap_ok = FALSE],
          [DefaultEnv EXCEPT !.st_size = 2],
          DefaultEnv}

LoadDirect ==
    \E g \in LoadDirectCmds, e \in ZlibEnvs : HandleCommand(g, Origin, e) /\ LeakBounded'

LoadPng == \E g \in PngCmds, e \in PngEnvs : HandleCommand(g, Origin, e) /\ LeakBounded'

LoadFile == \E g \in FileCmds, e \in FileEnvs : HandleCommand(g, Origin, e) /\ LeakBounded'

\* uploads to the GPU are switched off and on
Upload == \E b \in BOOLEAN : SetSendToGpu(b)

NextLoad ==
    \/ Upload
    \/ LoadDirect
    \/ LoadPng
    \/ LoadFile

SpecLoad == Init /\ [][NextLoad]_vars

\* -------------------------------------------- specification of the quota

\* Transmissions by file of images of 200 and 400 million bytes, and
\* placements of them.

LargeFile == [DefaultEnv EXCEPT !.st_size = MAX_DATA_SZ]

LargeCmds ==
    {Chunk(Transmit(a, id, 0, "f", RGBA, w, MAX_DIMENSION), 0, 8) :
        a \in {"t", "T"}, id \in {1, 2}, w \in {5000, MAX_DIMENSION}}

LargePutCmds == {[ZeroCommand EXCEPT !.action = "p", !.id = id] : id \in {1, 2}}

AddLarge == \E g \in LargeCmds : HandleCommand(g, Origin, LargeFile)

PutLarge == \E g \in LargePutCmds : HandleCommand(g, Origin, DefaultEnv)

NextQuota ==
    \/ AddLarge
    \/ PutLarge

SpecQuota == Init /\ [][NextQuota]_vars

\* --------------------------------------- specification of the client ids

\* Whole 1x1 images sent under an id of the client's, or under a number so
\* that the manager picks the id, one client id being above 2^31.

IdCmds ==
    {Chunk(Transmit("t", a[1], a[2], "d", RGBA, 1, 1), 0, 4) :
        a \in {<<1, 0>>, <<BigClientId, 0>>, <<0, 1>>, <<0, 2>>}}

AddId == \E g \in IdCmds : HandleCommand(g, Origin, DefaultEnv) /\ LeakBounded'

QueryId == \E g \in QueryCmds : HandleCommand(g, Origin, DefaultEnv) /\ LeakBounded'

LookUp == \E id \in {1, 2} : ImageForClientId(id)

NextIds ==
    \/ AddId
    \/ QueryId
    \/ LookUp

SpecIds == Init /\ [][NextIds]_vars

\* --------------------------------------- specification of the placements

\* One image of 2x4 pixels, placed with offsets inside and outside it, then
\* scrolled with and without margins and rescaled.

SmallFile == [DefaultEnv EXCEPT !.st_size = 24]

PlacedImage == Chunk(Transmit("t", 1, 0, "f", RGB, 2, 4), 0, 8)

Place == [ZeroCommand EXCEPT !.action = "p", !.id = 1]

PutCmds ==
    {Place,
     [Place EXCEPT !.x_offset = 3],
     [Place EXCEPT !.y_offset = 4],
     [Place EXCEPT !.num_lines = 1]}

\* without margins the placements go once they are above row 0, or above
\* the MaxRow lines that scrolled off and are kept
ScrollInputs ==
    {ScrollUp, [ScrollUp EXCEPT !.limit = 0 - MaxRow]}
    \cup {[amt |-> a, limit |-> 0, margin_top |-> 0, margin_bottom |-> 1,
           has_margins |-> TRUE] : a \in {-1, 1}}

CellSizes == {[width |-> 2, height |-> 2], [width |-> 4, height |-> 4]}

AddPlaced == HandleCommand(PlacedImage, Origin, SmallFile) /\ LeakBounded'

Put == \E g \in PutCmds : HandleCommand(g, Origin, DefaultEnv)

ScrollPlaced == \E d \in ScrollInputs : ScrollImages(d)

RescalePlaced == \E c \in CellSizes : Rescale(c)

NextPlace ==
    \/ AddPlaced
    \/ Put
    \/ ScrollPlaced
    \/ RescalePlaced
    \/ Delete

SpecPlace == Init /\ [][NextPlace]_vars

\* ---------------------------------------------------------------- claims

ImageWithInternalId(imgs, id) == {i \in 1..Len(imgs) : imgs[i].internal_id = id}

\* C1: after every operation the manager's used_storage is the sum of the
\* stored images' used_storage, also after a transmission to a client id
\* that is already stored.
C1_UsedStorageIsSum == used_storage = SeqSum(images, StorageOf)

\* C4 as stated: while loading_image is not 0, exactly one stored image has
\* that internal id, and it is not loaded.
C4_ExactlyOneLoading ==
    loading_image # 0 =>
        /\ Cardinality(ImageWithInternalId(images, loading_image)) = 1
        /\ \A i \in ImageWithInternalId(images, loading_image) : ~images[i].data_loaded

\* C4: while loading_image is not 0, at most one stored image has that
\* internal id, and an image that has it is not loaded; the image may be
\* gone, removed by a delete, a clear, a scroll or a query between chunks.
C4_AtMostOneLoading ==
    loading_image # 0 =>
        /\ Cardinality(ImageWithInternalId(images, loading_image)) <= 1
        /\ \A i \in ImageWithInternalId(images, loading_image) : ~images[i].data_loaded

\* a transmission was restarted on a stored image and is in progress
C4_Witness ==
    /\ loading_image # 0
    /\ last_op.op = "add"
    /\ ~last_op.cont
    /\ internal_id_counter > loading_image + 1
    /\ ImageWithInternalId(images, loading_image) # {}

\* The command a direct chunk g is handled with: the initial command's
\* parameters with the chunk's more and payload_sz when a transmission is in
\* progress, else g itself.
C10_Effective(g) ==
    IF IsContinuation(Self, g)
    THEN [last_init_graphics_command EXCEPT !.more = g.more,
                                            !.payload_sz = g.payload_sz]
    ELSE g

\* where the image of chunk g is stored once the chunk is handled
C10_Target(g) ==
    IF IsContinuation(Self, g) THEN ImageWithInternalId(images', loading_image)
    ELSE {i \in 1..Len(images') : images'[i].client_id = g.id}

\* what C10 asks of the step that handles chunk g
C10_Outcome(g) ==
    LET eff == C10_Effective(g)
        total == eff.data_width * eff.data_height * (Format(eff) \div 8)
        acc == Accumulated(Self, g)
        after == C10_Target(g)
        Answer(msg) == [kind |-> "G", text |-> <<"G", "i=", eff.id, ";", msg>>]
    IN (/\ IsContinuation(Self, g) => img_by_internal_id(Self, loading_image) # 0
        /\ Format(eff) \in {RGB, RGBA}
        /\ eff.compressed = ""
        /\ eff.id # 0 /\ eff.image_number = 0 /\ eff.placement_id = 0
        /\ g.quiet = 0
        /\ total > 0
        /\ acc <= total)
       =>
       /\ after # {}
       /\ eff.more # 0 =>
            /\ ret' = NoResponse
            /\ \A i \in after : ~images'[i].data_loaded
       /\ (eff.more = 0 /\ acc = total) =>
            /\ ret' = Answer("OK")
            /\ \A i \in after : images'[i].data_loaded
       /\ (eff.more = 0 /\ acc < total) =>
            /\ ret' = Answer("ENODATA")
            /\ \A i \in after : ~images'[i].data_loaded

\* C10: of an uncompressed RGB or RGBA direct transmission, a chunk with
\* more=1 leaves the image not loaded and gives no response; the chunk with
\* more=0 makes the image loaded and answers G i=<id> ;OK when the payload
\* sent so far is width*height*bytes per pixel, and answers ENODATA and
\* leaves the image not loaded when it is less.
C10_ChunkedDirect ==
    [][\A g \in DirectCmds :
          HandleCommand(g, Origin, DefaultEnv) => C10_Outcome(g)]_vars

\* a transmission in two chunks has completed with exactly its pixels
C10_Witness ==
    /\ last_op.op = "add"
    /\ last_op.cont
    /\ last_init_graphics_command.more = 0
    /\ last_op.acc = 4
    /\ Format(last_init_graphics_command) = RGBA
    /\ ret = [kind |-> "G", text |-> <<"G", "i=", 1, ";", "OK">>]
    /\ \E i \in 1..Len(images) : images[i].client_id = 1 /\ images[i].data_loaded

\* C7: the bytes stored in an image's load buffer never exceed its
\* capacity, whatever the payload size of a direct chunk, and no chunk is
\* copied past the end of the buffer.
C7_BufUsedWithinCapacity ==
    /\ ~heap_overflow
    /\ \A i \in 1..Len(images) :
         images[i].load_data.buf_used <= images[i].load_data.buf_capacity

\* C8: no stored image has both a load buffer and a mapped file, in every
\* state reached without a chunk having been copied past its buffer.
C8_BufOrMappedFile ==
    ~heap_overflow =>
        \A i \in 1..Len(images) :
            ~(images[i].load_data.buf /\ images[i].load_data.mapped_file)

\* a deflated PNG file was mapped and inflated, and the PNG decoder then
\* refused it: the image keeps the inflated buffer only
C8_Witness ==
    /\ last_op.op = "add"
    /\ TransmissionType(last_init_graphics_command) \in {"f", "t", "s"}
    /\ last_init_graphics_command.compressed = "z"
    /\ Format(last_init_graphics_command) = PNG
    /\ ret = [kind |-> "G", text |-> <<"G", "i=", 1, ";", "EBADPNG">>]
    /\ \E i \in 1..Len(images) :
          /\ images[i].client_id = 1
          /\ images[i].load_data.buf
          /\ ~images[i].load_data.mapped_file

\* C3: when an add-type command has returned, used_storage is at most
\* STORAGE_LIMIT.
C3_WithinStorageLimit ==
    last_op.op \in {"add", "query"} => used_storage <= STORAGE_LIMIT

\* the quota ran, removed images, and left some stored
C3_Witness ==
    /\ last_op.op = "add"
    /\ last_op.evicted
    /\ Len(images) > 0
    /\ used_storage > 0
    /\ used_storage <= STORAGE_LIMIT

\* C9: when an add command has loaded an image and the quota has run, the
\* image that was added is still stored.
C9_AddedImageKept ==
    (last_op.op = "add" /\ last_op.evicted /\ last_op.added # 0) =>
        ImageWithInternalId(images, last_op.added) # {}

\* C2: no two stored images have the same client id other than 0.
C2_UniqueClientIds ==
    \A i, j \in 1..Len(images) :
        (i # j /\ images[i].client_id # 0) => images[i].client_id # images[j].client_id

\* C5: the source rectangle of every placement lies inside its image:
\* src_x + src_width <= width and src_y + src_height <= height.
C5_SourceRectInsideImage ==
    \A i \in 1..Len(images) : \A j \in 1..Len(images[i].refs) :
        /\ images[i].refs[j].src_x + images[i].refs[j].src_width <= images[i].width
        /\ images[i].refs[j].src_y + images[i].refs[j].src_height <= images[i].height

\* C6: every placement covers at least one row: effective_num_rows >= 1.
C6_AtLeastOneRow ==
    \A i \in 1..Len(images) : \A j \in 1..Len(images[i].refs) :
        images[i].refs[j].effective_num_rows >= 1

\* ------------------------------- specification of transmit-and-display

\* A 1x1 RGB image sent directly under client id 1 in chunks of 2 bytes,
\* each chunk carrying an action, a placement id and a z_index of its own,
\* and one sent whole without an id, with and without display; puts on
\* image 1 with and without a placement id, a query, and deletes.

Placing == {[placement_id |-> 0, z_index |-> 0], [placement_id |-> 1, z_index |-> 7]}

DisplayCmds ==
    {[Chunk(Transmit(a, 1, 0, "d", RGB, 1, 1), more, 2)
         EXCEPT !.placement_id = p.placement_id, !.z_index = p.z_index] :
        a \in {"t", "T"}, more \in {0, 1}, p \in Placing}
    \cup {[Chunk(Transmit("T", 0, 0, "d", RGB, 1, 1), 0, 4)
              EXCEPT !.placement_id = 1, !.z_index = 7],
          Chunk(Transmit("t", 0, 0, "d", RGB, 1, 1), 0, 4)}

DisplayPutCmds ==
    {[ZeroCommand EXCEPT !.action = "p", !.id = 1, !.placement_id = p,
                         !.z_index = 3] : p \in {0, 1}}

AddDisplayed ==
    \E g \in DisplayCmds : HandleCommand(g, Origin, DefaultEnv) /\ LeakBounded'

PutDisplayed == \E g \in DisplayPutCmds : HandleCommand(g, Origin, DefaultEnv)

DeleteDisplayed == \E g \in DeleteCmds : HandleCommand(g, Origin, DefaultEnv)

\* a query for client id 1 with the 4 bytes of a 1x1 RGBA image
WholeQuery == Chunk(Transmit("q", 1, 0, "d", RGBA, 1, 1), 0, 4)

QueryDisplayed == HandleCommand(WholeQuery, Origin, DefaultEnv)

\* commands of every action that carry both a client id and a number
BothIdsCmds ==
    {[Chunk(Transmit(a, 1, 1, "d", RGB, 1, 1), 0, 4)
         EXCEPT !.delete_action = "A", !.placement_id = 1, !.quiet = q] :
        a \in {"", "t", "T", "q", "p", "d", "x"}, q \in {0, 1}}

BothIds == \E g \in BothIdsCmds : HandleCommand(g, Origin, DefaultEnv)

NextDisplay ==
    \/ BothIds
    \/ QueryDisplayed
    \/ AddDisplayed
    \/ PutDisplayed
    \/ DeleteDisplayed

SpecDisplay == Init /\ [][NextDisplay]_vars

\* ------------------------------------------------------------ claims, II

\* the internal id of the image that add-type command g loads into: the
\* image of the transmission in progress, else the loaded image stored under
\* g's client id, else the image that is created
AddTargetId(g) ==
    IF IsContinuation(Self, g) THEN loading_image
    ELSE LET old == {i \in 1..Len(images) :
                        /\ g.id # 0 /\ g.action # "q"
                        /\ images[i].client_id = g.id
                        /\ images[i].data_loaded}
         IN IF old # {} THEN images[CHOOSE i \in old : TRUE].internal_id
            ELSE internal_id_counter

\* what C11 asks of the step that handles chunk g
C11_Outcome(g) ==
    LET eff == C10_Effective(g)
    IN \A i \in ImageWithInternalId(images', AddTargetId(g)) :
          IF eff.action = "T" /\ images'[i].data_loaded
          THEN /\ Len(images'[i].refs) = 1
               /\ images'[i].refs[1].z_index = eff.z_index
               /\ images'[i].refs[1].client_id =
                      (IF images'[i].client_id # 0 THEN eff.placement_id ELSE 0)
               /\ images'[i].refs[1].start_row = 0
               /\ images'[i].refs[1].start_column = 0
               /\ images'[i].refs[1].src_width = images'[i].width
               /\ images'[i].refs[1].src_height = images'[i].height
          ELSE Len(images'[i].refs) = 0

\* C11: the image of a transmission has one placement, made from the
\* initial command, when the step that handles a chunk completes the load
\* and the initial command's action is T; in every other case (the load is
\* not complete, it failed, or the initial action is t whatever the chunk's
\* action) the image has no placement when the chunk has been handled.
C11_PlacedOnceOnCompletion ==
    [][\A g \in DisplayCmds :
          HandleCommand(g, Origin, DefaultEnv) => C11_Outcome(g)]_vars

\* a transmission started with action T and a placement id has completed on
\* a later chunk and the image carries the one placement
C11_Witness ==
    /\ last_op.op = "add"
    /\ last_op.cont
    /\ last_init_graphics_command.action = "T"
    /\ last_init_graphics_command.placement_id = 1
    /\ \E i \in 1..Len(images) :
          /\ images[i].internal_id = last_op.added
          /\ images[i].data_loaded
          /\ Len(images[i].refs) = 1
          /\ images[i].refs[1].client_id = 1

\* what C12 asks of the step that handles g, a whole image sent with id=0
\* and a number
C12_Outcome(g) ==
    \A i \in ImageWithInternalId(images', internal_id_counter) :
        LET others == {images'[j].client_id : j \in (1..Len(images')) \ {i}}
            id == images'[i].client_id
        IN /\ id > 0
           /\ id \notin others
           /\ \A k \in 1..(id - 1) : k \in others
           /\ ret' = [kind |-> "G",
                      text |-> <<"G", "i=", id, ",I=", g.image_number, ";", "OK">>]

\* C12: an image added with id=0 and a number N gets the smallest positive
\* integer that is the client id of no other stored image, and the response
\* carries that id as i= together with I=N.
C12_SmallestFreeClientId ==
    [][\A g \in IdCmds :
          (g.id = 0 /\ g.image_number # 0 /\ HandleCommand(g, Origin, DefaultEnv))
              => C12_Outcome(g)]_vars

WithoutAtime(img) == [img EXCEPT !.atime = 0]

\* an image of imgs is img, whatever its place in the array and its atime
Kept(imgs, img) == \E j \in 1..Len(imgs) : WithoutAtime(imgs[j]) = WithoutAtime(img)

Unnamed(img) == img.client_id = 0 /\ Len(img.refs) = 0

TrimmedStorage(img) == IF add_trim_predicate(img) THEN img.used_storage ELSE 0

\* C13 as stated: a whole query for id X, no transmission being in progress,
\* is answered G i=X ;OK, leaves every stored image with client id X as it
\* was, leaves no image without client id and placements, and leaves
\* used_storage as it was.
C13_QueryLeavesNothing ==
    [][(loading_image = 0 /\ HandleCommand(WholeQuery, Origin, DefaultEnv)) =>
          /\ ret' = [kind |-> "G", text |-> <<"G", "i=", WholeQuery.id, ";", "OK">>]
          /\ \A i \in 1..Len(images) :
                images[i].client_id = WholeQuery.id => Kept(images', images[i])
          /\ \A j \in 1..Len(images') : ~Unnamed(images'[j])
          /\ used_storage' = used_storage]_vars

\* C13: a whole query for id X, no transmission being in progress, is
\* answered G i=X ;OK, leaves every loaded stored image with client id X as
\* it was, and leaves no image without client id and placements; used_storage
\* is its value before the query less the used_storage of the images that
\* the trim at the start of an add removes (the images not loaded and those
\* without client id and placements).
C13_QueryKeepsLoaded ==
    [][(loading_image = 0 /\ HandleCommand(WholeQuery, Origin, DefaultEnv)) =>
          /\ ret' = [kind |-> "G", text |-> <<"G", "i=", WholeQuery.id, ";", "OK">>]
          /\ \A i \in 1..Len(images) :
                (images[i].client_id = WholeQuery.id /\ images[i].data_loaded)
                    => Kept(images', images[i])
          /\ \A j \in 1..Len(images') : ~Unnamed(images'[j])
          /\ used_storage' = used_storage - SeqSum(images, TrimmedStorage)]_vars

\* a query was answered OK while image 1 was stored, loaded and placed
C13_Witness ==
    /\ last_op.op = "query"
    /\ ~last_op.cont
    /\ ret = [kind |-> "G", text |-> <<"G", "i=", 1, ";", "OK">>]
    /\ \E i \in 1..Len(images) :
          /\ images[i].client_id = 1
          /\ images[i].data_loaded
          /\ Len(images[i].refs) > 0

\* C14: a command with both a client id and a number is answered EINVAL
\* with i=, I= and p= (quiet being 0 or 1) whatever its action, and leaves
\* the images with their placements, used_storage, loading_image, the saved
\* initial command and the cursor as they were.
C14_BothIdsRejected ==
    [][\A g \in BothIdsCmds :
          HandleCommand(g, Origin, DefaultEnv) =>
              /\ ret' = [kind |-> "G",
                         text |-> <<"G", "i=", g.id, ",I=", g.image_number,
                                    ",p=", g.placement_id, ";", "EINVAL">>]
              /\ cursor' = Origin
              /\ UNCHANGED <<images, used_storage, loading_image,
                             last_init_graphics_command, internal_id_counter,
                             layers_dirty>>]_vars

\* a command with both ids was rejected while a transmission was in progress
\* and a placed image was stored
C14_Witness ==
    /\ last_op.op = "rejected"
    /\ ret = [kind |-> "G", text |-> <<"G", "i=", 1, ",I=", 1, ",p=", 1, ";", "EINVAL">>]
    /\ loading_image # 0
    /\ \E i \in 1..Len(images) : Len(images[i].refs) > 0

\* the response that carries msg for client id id, none without an id
AnswerTo(id, msg) ==
    IF id = 0 THEN NoResponse ELSE [kind |-> "G", text |-> <<"G", "i=", id, ";", msg>>]

\* C15: when the image of the transmission in progress is no longer stored,
\* the next direct add-type command (a query included) is answered EILSEQ
\* under the id of the transmission (a query under its own id, a
\* transmission without id not at all), creates no image and stores no
\* payload, and leaves loading_image 0, so that the add-type command after it
\* starts a transmission.
C15_ChunkOfRemovedImage ==
    [][\A g \in DirectCmds \cup QueryCmds :
          (/\ loading_image # 0
           /\ img_by_internal_id(Self, loading_image) = 0
           /\ HandleCommand(g, Origin, DefaultEnv))
          =>
          /\ loading_image' = 0
          /\ Len(images') <= Len(images)
          /\ \A j \in 1..Len(images') : Kept(images, images'[j])
          /\ ret' = AnswerTo(IF g.action = "q" THEN g.id
                             ELSE last_init_graphics_command.id, "EILSEQ")]_vars

\* a chunk was answered EILSEQ and no transmission is in progress
C15_Witness ==
    /\ last_op.op = "add"
    /\ last_op.cont
    /\ ret = [kind |-> "G", text |-> <<"G", "i=", 1, ";", "EILSEQ">>]
    /\ loading_image = 0

\* ------------------------------------ specification of the failed loads

\* Transmissions to client id 1 that fail in every way the add handler
\* knows, and that succeed, with puts on the image, deletes, and an add
\* command that carries both a client id and a number.

OnePixel(a, tt) == Transmit(a, 1, 0, tt, RGB, 1, 1)

FailCmds ==
    {Chunk(OnePixel(a, "d"), more, 2) : a \in {"t", "T"}, more \in {0, 1}}
    \cup {Chunk(OnePixel("t", "d"), 0, 20),
          Chunk(Transmit("t", 1, 0, "d", RGB, MAX_DIMENSION + 1, 1), 0, 2),
          Chunk(Transmit("t", 1, 0, "d", RGB, 0, 1), 0, 2),
          [Chunk(OnePixel("t", "d"), 0, 2) EXCEPT !.compressed = "z"],
          Chunk(OnePixel("t", "f"), 0, 8)}

\* a file of 3 bytes; one of malloc, open, mmap and zlib may fail
FailEnvs ==
    LET ok == [DefaultEnv EXCEPT !.st_size = 3]
    IN {ok, [ok EXCEPT !.malloc_ok = FALSE], [ok EXCEPT !.fd_ok = FALSE],
        [ok EXCEPT !.mmap_ok = FALSE], [ok EXCEPT !.zlib_ok = FALSE]}

BothIdsAdd == [Chunk(OnePixel("t", "d"), 0, 2) EXCEPT !.image_number = 1]

AddFailing ==
    \E g \in FailCmds, e \in FailEnvs : HandleCommand(g, Origin, e) /\ LeakBounded'

AddBothIds == HandleCommand(BothIdsAdd, Origin, DefaultEnv)

PutOnFailed == HandleCommand(Place, Origin, DefaultEnv)

DeleteFailed == \E g \in DeleteCmds : HandleCommand(g, Origin, DefaultEnv)

NextFail ==
    \/ AddFailing
    \/ AddBothIds
    \/ PutOnFailed
    \/ DeleteFailed

SpecFail == Init /\ [][NextFail]_vars

\* ----------------------------------------------------------- claims, III

AddErrors == {"EINVAL", "ENOMEM", "EBADF", "EFBIG", "EILSEQ", "ENODATA"}

IsErrorResponse(r) == r.kind = "G" /\ r.text[Len(r.text)] \in AddErrors

\* the internal id of the image that add command g creates or empties, 0
\* when it is refused before an image is looked for
C16_Target(g) ==
    IF \/ g.id # 0 /\ g.image_number # 0
       \/ /\ ~IsContinuation(Self, g)
          /\ (g.data_width > MAX_DIMENSION \/ g.data_height > MAX_DIMENSION)
    THEN 0
    ELSE AddTargetId(g)

\* what C16 asks of the state an add command g leaves when its response is
\* an error
C16_TornDown(g) ==
    /\ loading_image' = 0
    /\ \A i \in ImageWithInternalId(images', C16_Target(g)) :
          /\ ~images'[i].data_loaded
          /\ Len(images'[i].refs) = 0
          /\ handle_put_command([Self EXCEPT !.images = images'],
                                [Place EXCEPT !.id = images'[i].client_id],
                                Origin, 0, cell).M.command_response = "ENOENT"

\* C16 as stated: after every add-type command that is answered with an
\* error, the command with both a client id and a number included,
\* loading_image is 0 and the image of the failed transmission, if stored,
\* is not loaded, has no placement and refuses a put with ENOENT.
C16_EveryErrorTearsDown ==
    [][\A g \in FailCmds \cup {BothIdsAdd}, e \in FailEnvs :
          (HandleCommand(g, Origin, e) /\ IsErrorResponse(ret')) => C16_TornDown(g)]_vars

\* C16: after every add-type command that handle_add_command fails, that is
\* every one answered with an error but the command refused for carrying
\* both a client id and a number (which changes nothing), loading_image is 0
\* and the image of the failed transmission, if stored, is not loaded, has
\* no placement and refuses a put with ENOENT.
C16_FailedLoadTornDown ==
    [][\A g \in FailCmds, e \in FailEnvs :
          (HandleCommand(g, Origin, e) /\ IsErrorResponse(ret')) => C16_TornDown(g)]_vars

\* a retransmission to image 1, which was loaded and placed, has failed and
\* left the image stored
C16_Witness ==
    /\ last_op.op = "add"
    /\ IsErrorResponse(ret)
    /\ layers_dirty
    /\ used_storage > 0
    /\ \E i \in 1..Len(images) :
          /\ images[i].client_id = 1
          /\ images[i].internal_id = 1
          /\ ~images[i].data_loaded

\* no image has two placements with the same client id other than 0
UniquePlacementIds(imgs) ==
    \A i \in 1..Len(imgs) : \A j, k \in 1..Len(imgs[i].refs) :
        (j # k /\ imgs[i].refs[j].client_id # 0)
            => imgs[i].refs[j].client_id # imgs[i].refs[k].client_id

\* what C17 asks of a put g that is answered OK
C17_Outcome(g) ==
    LET img == images[img_by_client_id(Self, g.id)]
        n == Len(img.refs)
        hits == {j \in 1..n : img.refs[j].client_id = g.placement_id}
    IN \A i \in ImageWithInternalId(images', img.internal_id) :
          LET refs == images'[i].refs
          IN IF g.placement_id # 0 /\ hits # {}
             THEN /\ Len(refs) = n
                  /\ \E j \in hits :
                        /\ refs[j].client_id = g.placement_id
                        /\ refs[j].z_index = g.z_index
                        /\ \A k \in (1..n) \ {j} : refs[k] = img.refs[k]
             ELSE /\ Len(refs) = n + 1
                  /\ SubSeq(refs, 1, n) = img.refs
                  /\ refs[n + 1].client_id = g.placement_id
                  /\ refs[n + 1].z_index = g.z_index

\* C17: a put that is answered OK and names a placement id that a
\* placement of the image has overwrites that placement and leaves the
\* others and their number as they were; every other put that is answered
\* OK appends one placement; and no image ever has two placements with the
\* same client id other than 0.
C17_PutAppendsOrOverwrites ==
    [][/\ \A g \in DisplayPutCmds :
            (/\ HandleCommand(g, Origin, DefaultEnv)
             /\ ret'.kind = "G" /\ ret'.text[Len(ret'.text)] = "OK")
                => C17_Outcome(g)
       /\ UniquePlacementIds(images')]_vars

\* the last put named placement 1 and was answered OK, and placement 1 is
\* the first of two placements: it was overwritten, not appended
C17_Witness ==
    /\ last_op.op = "put"
    /\ ret = [kind |-> "G", text |-> <<"G", "i=", 1, ",p=", 1, ";", "OK">>]
    /\ \E i \in 1..Len(images) :
          /\ images[i].client_id = 1
          /\ Len(images[i].refs) = 2
          /\ images[i].refs[1].client_id = 1
          /\ images[i].refs[1].z_index = 3
          /\ images[i].refs[2].client_id = 0

\* ------------------------------- specification of the numbered images

\* Images of 150 million bytes sent by file under the numbers 1 and 2, three
\* of which exceed the quota, placed and deleted by number.

NumberedCmds ==
    {Chunk(Transmit(a, 0, n, "f", RGB, 5000, MAX_DIMENSION), 0, 8) :
        a \in {"t", "T"}, n \in {1, 2}}

NumberedPutCmds ==
    {[ZeroCommand EXCEPT !.action = "p", !.image_number = n] : n \in {1, 2}}

NumberedDeleteCmds ==
    {[ZeroCommand EXCEPT !.action = "d", !.delete_action = a, !.image_number = n] :
        a \in {"n", "N"}, n \in {1, 2}}

AddNumbered == \E g \in NumberedCmds : HandleCommand(g, Origin, LargeFile)

PutNumbered == \E g \in NumberedPutCmds : HandleCommand(g, Origin, DefaultEnv)

DeleteNumbered == \E g \in NumberedDeleteCmds : HandleCommand(g, Origin, DefaultEnv)

NextNumber ==
    \/ AddNumbered
    \/ PutNumbered
    \/ DeleteNumbered

SpecNumber == Init /\ [][NextNumber]_vars

\* ------------------------------------------------------------ claims, IV

\* the stored images with client number n
Numbered(imgs, n) == {i \in 1..Len(imgs) : imgs[i].client_number = n}

\* the one of them that was created last
Newest(imgs, n) ==
    CHOOSE i \in Numbered(imgs, n) :
        \A j \in Numbered(imgs, n) : imgs[j].internal_id <= imgs[i].internal_id

\* C18: a put by number, when an image with that number is stored, adds
\* its placement to the image with that number that was created last,
\* whatever adds, evictions, puts and deletes came before.
C18_PutOnNewest ==
    [][\A g \in NumberedPutCmds :
          (HandleCommand(g, Origin, DefaultEnv)
           /\ Numbered(images, g.image_number) # {})
              => LET i == Newest(images, g.image_number)
                 IN /\ Len(images') = Len(images)
                    /\ images'[i].internal_id = images[i].internal_id
                    /\ Len(images'[i].refs) = Len(images[i].refs) + 1]_vars

\* every placement covers at least one row
EveryRefHasRows(imgs) ==
    \A i \in 1..Len(imgs) : \A j \in 1..Len(imgs[i].refs) :
        imgs[i].refs[j].effective_num_rows >= 1

\* C19: after a delete with delete_action a or A no image has a placement
\* left, wherever the placements were, those whose rows are all above row
\* 0 included.  Stated for the states in which every placement covers at
\* least one row.
C19_DeleteAllLeavesNone ==
    [][\A g \in DeleteCmds :
          (HandleCommand(g, Origin, DefaultEnv) /\ EveryRefHasRows(images))
              => \A i \in 1..Len(images') : Len(images'[i].refs) = 0]_vars

\* image i is stored in imgs2 with the placements it has in imgs
Untouched(imgs, imgs2, i) ==
    \E j \in 1..Len(imgs2) :
        /\ imgs2[j].internal_id = imgs[i].internal_id
        /\ imgs2[j].refs = imgs[i].refs

\* C20: a delete with delete_action n or N and image_number N leaves every
\* image but the one with number N that was created last stored and with
\* all its placements: the older images with that number and the images
\* with another number.
C20_DeleteByNumberOnlyNewest ==
    [][\A g \in NumberedDeleteCmds :
          HandleCommand(g, Origin, DefaultEnv)
              => \A i \in 1..Len(images) :
                    (\/ Numbered(images, g.image_number) = {}
                     \/ i # Newest(images, g.image_number))
                        => Untouched(images, images', i)]_vars

\* ------------------------------------ specification of the delete actions

\* The 2x4 image of client id 1 and an image without an id, placed at the
\* origin over one or two rows, scrolled into the lines that are kept
\* above the screen, and deleted by every delete action but n and N.

\* the delete actions that read no point or the cursor, and those that
\* read x_offset, y_offset or both
DeleteByCmds ==
    {[ZeroCommand EXCEPT !.action = "d", !.delete_action = a, !.id = 1, !.z_index = 3] :
        a \in {"", "a", "A", "i", "I", "z", "Z", "c", "C"}}
    \cup {[ZeroCommand EXCEPT !.action = "d", !.delete_action = a, !.x_offset = x] :
            a \in {"x", "X"}, x \in {1, 2}}
    \cup {[ZeroCommand EXCEPT !.action = "d", !.delete_action = a, !.y_offset = y] :
            a \in {"y", "Y"}, y \in 0..2}
    \cup {[ZeroCommand EXCEPT !.action = "d", !.delete_action = a, !.z_index = 3,
                              !.x_offset = pt[1], !.y_offset = pt[2]] :
            a \in {"p", "P", "q", "Q"}, pt \in {<<1, 1>>, <<1, 2>>, <<2, 1>>}}

AddUnnamed ==
    \E a \in {"t", "T"} :
        /\ HandleCommand([PlacedImage EXCEPT !.action = a, !.id = 0], Origin, SmallFile)
        /\ LeakBounded'

\* placement 0 over the rows of the image, placement 1 over one row
PutRows ==
    \E n \in {0, 1} :
        HandleCommand([Place EXCEPT !.num_lines = n, !.placement_id = n, !.z_index = 3],
                      Origin, DefaultEnv)

ScrollBack == ScrollImages([ScrollUp EXCEPT !.limit = 0 - MaxRow])

DeleteBy == \E g \in DeleteByCmds : HandleCommand(g, Origin, DefaultEnv)

NextDelete ==
    \/ AddPlaced
    \/ AddUnnamed
    \/ PutRows
    \/ ScrollBack
    \/ DeleteBy

SpecDelete == Init /\ [][NextDelete]_vars

\* ------------------------------------------------------------- claims, V

\* whether the filter of delete command g, handled with the cursor at cur,
\* matches placement ref of image img (lines 859-873)
DeleteMatches(g, cur, ref, img) ==
    LET a == g.delete_action
        d == [g EXCEPT !.x_offset = cur.x + 1, !.y_offset = cur.y + 1]
    IN CASE a \in {"", "a", "A"} -> clear_filter_func(ref)
         [] a \in {"i", "I"} -> id_filter_func(ref, img, g)
         [] a \in {"p", "P"} -> point_filter_func(ref, g)
         [] a \in {"q", "Q"} -> point3d_filter_func(ref, g)
         [] a \in {"x", "X"} -> x_filter_func(ref, g)
         [] a \in {"y", "Y"} -> y_filter_func(ref, g)
         [] a \in {"z", "Z"} -> z_filter_func(ref, g)
         [] a \in {"c", "C"} -> point_filter_func(ref, d)
         [] OTHER -> FALSE

UpperCase(a) == a \in {"A", "I", "P", "Q", "X", "Y", "Z", "C"}

\* what C21 asks of the step that handles delete command g
C21_Outcome(g) ==
    \A i \in 1..Len(images) :
        LET img == images[i]
            left == SelectSeq(img.refs, LAMBDA r : ~DeleteMatches(g, Origin, r, img))
            goes == Len(left) = 0 /\ (UpperCase(g.delete_action) \/ img.client_id = 0)
            after == ImageWithInternalId(images', img.internal_id)
        IN /\ goes <=> after = {}
           /\ \A j \in after : images'[j].refs = left

\* C21: a delete with an action other than n and N removes an image if and
\* only if, once the placements that the action matches are removed, the
\* image has no placement and the action letter is upper case or the
\* image's client id is 0; an image that stays keeps exactly its unmatched
\* placements.
C21_ReapedIffUnplaced ==
    [][\A g \in DeleteByCmds :
          HandleCommand(g, Origin, DefaultEnv) => C21_Outcome(g)]_vars

\* after a delete the image of client id 1 is stored without a placement
\* and the image without an id, created before it, is gone
C21_Witness ==
    /\ last_op.op = "delete"
    /\ Len(images) = 1
    /\ images[1].client_id = 1
    /\ images[1].internal_id = 2
    /\ images[1].data_loaded
    /\ Len(images[1].refs) = 0
    /\ layers_dirty

\* row is one of the rows of the placement, as signed integers
RowInSpan(ref, row) ==
    ref.start_row <= row /\ row < ref.start_row + ref.effective_num_rows

\* C22: a delete with delete_action y or Y and y_offset Y removes exactly
\* the placements with start_row <= Y-1 < start_row + effective_num_rows
\* as signed integers, whatever start_row (negative ones included) and Y
\* (0 included): an image that stays keeps exactly its other placements,
\* and an image goes only if all its placements were such.
C22_DeleteRowExactly ==
    [][\A g \in {d \in DeleteByCmds : d.delete_action \in {"y", "Y"}} :
          HandleCommand(g, Origin, DefaultEnv)
              => \A i \in 1..Len(images) :
                    LET left == SelectSeq(images[i].refs,
                                          LAMBDA r : ~RowInSpan(r, g.y_offset - 1))
                        after == ImageWithInternalId(images', images[i].internal_id)
                    IN /\ after = {} => Len(left) = 0
                       /\ \A j \in after : images'[j].refs = left]_vars

\* a scroll with margins as C23 words it: every placement that is not
\* wholly outside the margins is moved and clipped
scroll_every_ref_func(ref, d, c) ==
    IF ref_outside_region(ref, d.margin_top, d.margin_bottom)
    THEN [ref |-> ref, remove |-> FALSE]
    ELSE scroll_shift_and_clip(ref, d, c)

\* C23: a scroll with margins leaves the placements that are wholly outside
\* the margin region untouched and moves every other placement by amt and
\* clips it to the region (or removes it when nothing of it is left
\* inside), the placements that lie only partly inside the region included.
C23_ScrollMovesEveryRefInside ==
    [][\A d \in {x \in ScrollInputs : x.has_margins} :
          ScrollImages(d)
              => images' = modify_refs(Self, TRUE,
                               LAMBDA r, img : scroll_every_ref_func(r, d, cell)).images]_vars

\* ------------------------------------------ specification of the layers

\* The 2x4 image of client id 1 and an image without an id, placed with z
\* indexes from -2 to INT32_MAX, every operation that changes placements
\* or removes images, and updates of the layers with the screen scrolled
\* back by 0 or 1 line.

\* placement 0 at z 0, placement 1 at z -2, placement 2 at z INT32_MAX
PutLayer ==
    \E p \in {<<0, 0>>, <<1, 0 - 2>>, <<2, INT32_MAX>>} :
        HandleCommand([Place EXCEPT !.placement_id = p[1], !.z_index = p[2]],
                      Origin, DefaultEnv)

\* an image of 400 million bytes, above the quota by itself
AddOverQuota ==
    HandleCommand(Chunk(Transmit("t", 2, 0, "f", RGBA, MAX_DIMENSION, MAX_DIMENSION), 0, 8),
                  Origin, LargeFile)

Update == \E scrolled_by \in {0, 1} : UpdateLayers(scrolled_by)

\* What is explored: two images are created, placements are followed one
\* line above the screen, and once something is drawn the layers are
\* updated after every operation (no operation but the update reads the
\* render data).
LayersBounded ==
    /\ internal_id_counter <= 3
    /\ \A i \in 1..Len(images) : \A j \in 1..Len(images[i].refs) :
          images[i].refs[j].start_row >= 0 - 1

Redrawn == ~layers_dirty \/ render_data = <<>>

NextLayers ==
    \/ Update /\ LayersBounded'
    \/ Redrawn /\ AddPlaced /\ LayersBounded'
    \/ Redrawn /\ AddUnnamed /\ LayersBounded'
    \/ Redrawn /\ AddOverQuota /\ LayersBounded'
    \/ Redrawn /\ QueryDisplayed /\ LayersBounded'
    \/ Redrawn /\ PutLayer /\ LayersBounded'
    \/ Redrawn /\ Delete /\ LayersBounded'
    \/ Redrawn /\ ClearScreen /\ LayersBounded'
    \/ Redrawn /\ ScrollBack /\ LayersBounded'
    \/ Redrawn /\ Rescale(cell) /\ LayersBounded'
    \/ Redrawn /\ Resize /\ LayersBounded'

SpecLayers == Init /\ [][NextLayers]_vars

\* ------------------------------------------------------------ claims, VI

\* the placements of the stored images
PlacementsOf(imgs) ==
    UNION {{<<imgs[i].internal_id, j, imgs[i].refs[j]>> : j \in 1..Len(imgs[i].refs)} :
              i \in 1..Len(imgs)}

InternalIds(imgs) == {imgs[i].internal_id : i \in 1..Len(imgs)}

\* the entries of a render set, whatever their order and groups
RenderSet(rd) == {[rd[k] EXCEPT !.group_count = 0] : k \in 1..Len(rd)}

\* C24: a step other than an update of the layers that adds, changes or
\* removes a placement or removes an image, and every scroll of a manager
\* with images, rescale and resize, leaves layers_dirty true; layers_dirty
\* stays true through every step that is not an update of the layers; and
\* an update of the layers that finds it true clears it and leaves as
\* render data the visible placements of the images.
C24_MutationsDirtyTheLayers ==
    [][IF last_op'.op # "update_layers"
       THEN /\ (\/ PlacementsOf(images') # PlacementsOf(images)
                \/ ~(InternalIds(images) \subseteq InternalIds(images'))
                \/ last_op'.op \in {"rescale", "resize"}
                \/ (last_op'.op = "scroll" /\ Len(images) > 0)) => layers_dirty'
            /\ layers_dirty => layers_dirty'
       ELSE layers_dirty =>
               /\ ~layers_dirty'
               /\ Len(render_data') =
                      Len(visible_refs_from(Self, last_scrolled_by', cell, 1))
               /\ RenderSet(render_data') =
                      RenderSet(visible_refs_from(Self, last_scrolled_by', cell, 1))]_vars

\* an update of the layers has rebuilt a render set of two entries after a
\* placement was made
C24_Witness ==
    /\ last_op.op = "update_layers"
    /\ ret = [kind |-> "bool", value |-> TRUE]
    /\ Len(render_data) = 2
    /\ ~layers_dirty

\* a precedes b, or may stand where b stands, in the order of (z_index,
\* image_id)
InDrawOrder(a, b) ==
    \/ a.z_index < b.z_index
    \/ a.z_index = b.z_index /\ a.image_id <= b.image_id

\* C25: after an update of the layers that rebuilt the render set, the
\* render data is ordered by z_index ascending and, among equal z_index,
\* by image_id ascending, whatever the z_index values, those whose
\* difference does not fit in 32 bits included.
C25_RenderDataInDrawOrder ==
    (last_op.op = "update_layers" /\ ret = [kind |-> "bool", value |-> TRUE])
        => \A i, j \in 1..Len(render_data) :
              i < j => InDrawOrder(render_data[i], render_data[j])

\* the entry at k starts a run of entries with one image_id, and the
\* length of the run that starts at k
RunStart(rd, k) == k = 1 \/ rd[k - 1].image_id # rd[k].image_id

RunLength(rd, k) ==
    Cardinality({m \in k..Len(rd) : \A n \in k..m : rd[n].image_id = rd[k].image_id})

NoOverflowIn(rd) ==
    \A i, j \in 1..Len(rd) : ~SubOverflows(rd[i].z_index, rd[j].z_index)

\* C26: after an update of the layers that rebuilt the render set, the
\* first entry of every maximal run of entries with the same image_id has
\* the length of the run as its group_count, a run that ends at the last
\* entry included.  Stated for the render sets whose z_index the
\* comparison subtracts without overflow.
C26_GroupCountIsRunLength ==
    (/\ last_op.op = "update_layers"
     /\ ret = [kind |-> "bool", value |-> TRUE]
     /\ NoOverflowIn(render_data))
        => \A k \in 1..Len(render_data) :
              RunStart(render_data, k)
                  => render_data[k].group_count = RunLength(render_data, k)

\* ------------------------------------------ specification of the chunks

\* Direct add-type commands of 2 bytes under several ids and numbers, as a
\* 1x1 RGB image or as a deflated PNG wider than MAX_DIMENSION, each of
\* which starts a transmission or meets the one in progress.

ChunkCmds ==
    {[Chunk(Transmit(a, i[1], i[2], "d", f[1], f[2], 1), more, 2)
         EXCEPT !.compressed = f[3]] :
        a \in {"t", "q"},
        i \in {<<1, 0>>, <<2, 0>>, <<0, 2>>, <<1, 1>>},
        f \in {<<RGB, 1, "">>, <<PNG, MAX_DIMENSION + 1, "z">>},
        more \in {0, 1}}

AddChunk == \E g \in ChunkCmds : HandleCommand(g, Origin, DefaultEnv) /\ LeakBounded'

NextChunks == AddChunk \/ Delete

SpecChunks == Init /\ [][NextChunks]_vars

\* ----------------------------------------------------------- claims, VII

\* what C27 asks of the step that handles g while a transmission is in
\* progress: no image is created, the saved command takes more and
\* payload_sz from g and nothing else, and the image in progress, when it
\* is stored before and after, has got g's payload and is what the saved
\* command described
C27_Outcome(g) ==
    /\ internal_id_counter' = internal_id_counter
    /\ InternalIds(images') \subseteq InternalIds(images)
    /\ last_init_graphics_command' =
           [last_init_graphics_command EXCEPT !.more = g.more,
                                              !.payload_sz = g.payload_sz]
    /\ \A i \in ImageWithInternalId(images, loading_image) :
       \A j \in ImageWithInternalId(images', loading_image) :
           /\ images'[j].client_id = images[i].client_id
           /\ images'[j].client_number = images[i].client_number
           /\ IF images'[j].data_loaded
              THEN /\ g.more = 0
                   /\ loading_image' = 0
                   /\ images'[j].width = last_init_graphics_command.data_width
                   /\ images'[j].height = last_init_graphics_command.data_height
              ELSE \/ /\ g.more = 1
                      /\ loading_image' = loading_image
                      /\ images'[j].load_data.buf_used =
                             images[i].load_data.buf_used + g.payload_sz
                   \/ /\ loading_image' = 0
                      /\ g.action = "q" \/ IsErrorResponse(ret')

\* the add-type commands of C27: direct, and with an id when a query
C27_Cmds == {g \in ChunkCmds : g.action = "q" => g.id # 0}

EvictCmds ==
    {Chunk(Transmit("T", id, 0, "f", RGBA, w, MAX_DIMENSION), 0, 8) :
        id \in {1, 2, 3}, w \in {3000, 5000}}

AddEvicting == \E g \in EvictCmds : HandleCommand(g, Origin, LargeFile)

PutEvicting ==
    \E id \in {1, 2, 3} :
        HandleCommand([ZeroCommand EXCEPT !.action = "p", !.id = id], Origin, DefaultEnv)

NextEvict == AddEvicting \/ PutEvicting

SpecEvict == Init /\ [][NextEvict]_vars

\* ---------------------------------------------------------- claims, VIII

\* lines 928-931 for a command of EvictCmds: the manager as line 934 finds it
BeforeQuota(g) ==
    LET added == handle_add_command([Self EXCEPT !.command_response = ""], g, g.id,
                                    LargeFile, send_to_gpu)
    IN IF added.image # 0 /\ added.M.images[added.image].data_loaded
       THEN [M |-> handle_put_command(added.M, added.M.last_init_graphics_command,
                                      Origin, added.image, cell).M,
             added |-> added.M.images[added.image].internal_id]
       ELSE [M |-> added.M, added |-> 0]

\* line 143 on that manager: what the second step of the quota starts from
BeforeSecondStep(g) ==
    remove_images(BeforeQuota(g).M, trim_predicate, BeforeQuota(g).added)

\* the second step of the quota ran in the step that handles g
SecondStepRan(g) ==
    /\ BeforeQuota(g).M.used_storage > STORAGE_LIMIT
    /\ BeforeSecondStep(g).used_storage >= STORAGE_LIMIT

\* what C28 asks of the step that handles g: no image that the second step
\* removed was accessed after one that it kept, and it removed no image
\* once used_storage was not above the limit
C28_Outcome(g) ==
    LET M1 == BeforeSecondStep(g)
        Stored == 1..Len(M1.images)
        Removed == {k \in Stored :
                       ImageWithInternalId(images', M1.images[k].internal_id) = {}}
        Survivors == Stored \ Removed
        left == M1.used_storage -
                SeqSum(M1.images,
                       LAMBDA img : IF ImageWithInternalId(images', img.internal_id) = {}
                                    THEN img.used_storage ELSE 0)
    IN /\ \A r \in Removed : \A k \in Survivors :
             M1.images[r].atime <= M1.images[k].atime
       /\ Survivors # {} => left <= STORAGE_LIMIT
       /\ Removed # {} =>
             \E r \in Removed :
                /\ \A q \in Removed : M1.images[q].atime <= M1.images[r].atime
                /\ left + M1.images[r].used_storage > STORAGE_LIMIT

\* C28: the second eviction step removes the images in the order of their
\* atime, oldest first: every image it removes has an atime less than or
\* equal to that of every image it keeps, and it stops as soon as
\* used_storage is no longer above the limit.
C28_EvictsOldestFirst ==
    [][\A g \in EvictCmds :
          (HandleCommand(g, Origin, LargeFile) /\ SecondStepRan(g)) => C28_Outcome(g)]_vars

\* the quota removed the image created second and kept the one created
\* first, which a later access had made the newer of the two, and the image
\* just added
C28_Witness ==
    /\ last_op.op = "add"
    /\ last_op.evicted
    /\ Len(images) = 2
    /\ {images[i].internal_id : i \in 1..Len(images)} = {1, 3}
    /\ \A i \in 1..Len(images) : images[i].data_loaded /\ Len(images[i].refs) > 0

\* --------------------------------------- specification of the scrolling

\* A direct transmission in chunks under client id 2, a transmission by
\* file under client id 1 and placements of it, and scrolls with and
\* without margins.

AddInChunks ==
    \E more \in {0, 1} :
        /\ HandleCommand(Chunk(Transmit("t", 2, 0, "d", RGB, 1, 1), more, 2),
                         Origin, DefaultEnv)
        /\ LeakBounded'

NextScroll ==
    \/ AddInChunks
    \/ AddPlaced
    \/ PutRows
    \/ ScrollPlaced

SpecScroll == Init /\ [][NextScroll]_vars

\* ------------------------------------------------------------ claims, IX

\* C29: when grman_scroll_images returns on a manager that held an image,
\* every image still stored has at least one placement, whatever the
\* scroll: images without placements are removed, those with a client id
\* and the one of a transmission in progress included.
C29_ScrollReapsUnplacedImages ==
    [][\A d \in ScrollInputs :
          (Len(images) > 0 /\ ScrollImages(d))
              => \A i \in 1..Len(images') : Len(images'[i].refs) >= 1]_vars

\* a scroll has run, a placed image is stored, and the image of the
\* transmission in progress is no longer stored
C29_Witness ==
    /\ last_op.op = "scroll"
    /\ loading_image # 0
    /\ ImageWithInternalId(images, loading_image) = {}
    /\ Len(images) > 0

\* the update leaves a render set other than the one it found
RenderSetChanges ==
    \/ Len(render_data') # Len(render_data)
    \/ RenderSet(render_data') # RenderSet(render_data)

\* C30: an update of the layers that leaves a render set (the visible
\* placements and their count) other than the one the update before it
\* left returns true, also when the render set becomes empty; it returns
\* false only when the render set is unchanged.
C30_UpdateReportsEveryChange ==
    [][\A scrolled_by \in {0, 1} :
          (UpdateLayers(scrolled_by) /\ RenderSetChanges) => ret'.value]_vars

\* ------------------------------------------------------------- claims, X

\* C31: grman_rescale called with the cell size already in effect leaves
\* every placement as it was (cell offsets, effective_num_cols and
\* effective_num_rows included), in every reachable state, also for a
\* placement with an explicit num_rows that a scroll with margins clipped.
C31_RescaleToSameCellChangesNothing ==
    [][Rescale(cell) => PlacementsOf(images') = PlacementsOf(images)]_vars

\* C32: the lookup image_for_client_id only reads: for an id that no stored
\* image has, and for id 0, it returns None and leaves the stored images
\* and their count as they were; for an id that a stored image has it
\* returns that image and changes no state.
C32_LookUpOnlyReads ==
    [][\A id \in 0..2 :
          ImageForClientId(id) =>
              /\ UNCHANGED <<images, used_storage, loading_image,
                             last_init_graphics_command, layers_dirty,
                             internal_id_counter, render_data>>
              /\ ret' = IF id # 0 /\ \E i \in 1..Len(images) : images[i].client_id = id
                        THEN [kind |-> "image", i |-> id]
                        ELSE NoResponse]_vars

====
